---- MODULE Spec2Model ----
(***************************************************************************)
(* Model of copilot-council: the three-stage council pipeline              *)
(* (Council.Execute), the parallel fan-out (Client.AskMultipleModels),     *)
(* the single call (Client.AskSingleModel), the peer review loop           *)
(* (Council.conductPeerReview) and the prompt / ranking helpers.           *)
(*                                                                         *)
(* Texts are sequences of lines, a line is a sequence of tokens (strings); *)
(* the Go empty string is the text with no line.  Errors are sequences of  *)
(* message parts, the nil error is the empty sequence, and wrapping with   *)
(* %w prepends a part.  Durations are differences of the clock `now`.      *)
(***************************************************************************)
EXTENDS Integers, Sequences, FiniteSets, TLC

\* ---------------------------------------------------------------- bounds
MaxModels == 2
MaxTime == 1
MaxAnswers == 10

\* Longest generated review text, in lines.
MaxLines == 3

\* Most session events delivered to one call.
MaxEvents == 3

\* ------------------------------------------------------ inputs and values
ModelPool == <<"claude-sonnet-4.5", "gpt-5.2", "gemini-3-pro-preview", "model-4", "model-5">>

AnswerPool == <<"answer-1", "answer-2", "answer-3", "answer-4", "answer-5">>

\* Variant: the aggregator is one of the default participants.
Aggregator_Participant == "gpt-5.2"

\* The default aggregator of the program (DefaultAggregator).
Aggregator == "gpt-4.1"

Question == "question"

EmptyText == <<>>

NoError == <<>>

\* The text the gateway can deliver for participant idx in Stage 1.
Answer(idx) == << <<AnswerPool[idx]>> >>

\* Review outputs the gateway can deliver: one that ignores the requested
\* format and one that follows it for two labels.
UnparseableReview == << <<"I liked them both">> >>

FormattedReview ==
    << <<"Ranking", ":">>,
       <<"1", ".", " ", "Response ", "B", ":", " ", "clear and correct">>,
       <<"2", ".", " ", "Response ", "A", ":", " ", "verbose">> >>

ReviewTexts == {UnparseableReview, FormattedReview}

SynthesizedText == << <<"final answer">> >>

\* Variant: the default list in another order.
DefaultModels_Reordered == <<"gpt-5.2", "claude-sonnet-4.5", "gemini-3-pro-preview">>

\* The default participant list of the program.
DefaultModels == <<"claude-sonnet-4.5", "gpt-5.2", "gemini-3-pro-preview">>

\* The participant lists a run can be configured with: the default list, and
\* every shorter or equal list of distinct identifiers or of identifiers whose
\* last repeats the first.
DistinctModels(n) == SubSeq(ModelPool, 1, n)

RepeatedModels(n) == [i \in 1..n |-> IF i = n THEN ModelPool[1] ELSE ModelPool[i]]

ModelLists ==
    {DefaultModels}
        \cup {DistinctModels(n) : n \in 1..MaxModels}
        \cup {RepeatedModels(n) : n \in 2..MaxModels}

\* copilot.Response and its zero value (the content of a pre-allocated slot).
Response(model, content, error, duration) ==
    [Model |-> model, Content |-> content, Error |-> error, Duration |-> duration]

ZeroResponse == Response("", EmptyText, NoError, 0)

ErrCreateSession(model) == <<"failed to create session for model", model, "sdk error">>

ErrSend == <<"failed to send message", "sdk error">>

ErrSendRaw == <<"sdk error">>

ErrTimeout == <<"timeout waiting for response">>

ErrAllFailed == <<"all models failed to respond">>

ErrAggregation(err) == <<"aggregation failed">> \o err

\* ------------------------------------------------------- string helpers
Digits == <<"0", "1", "2", "3", "4", "5", "6", "7", "8", "9">>

\* fmt.Sprintf("%d", n) for 0 <= n <= 99, as tokens.
Itoa(n) ==
    IF n < 10 THEN <<Digits[n + 1]>>
    ELSE <<Digits[(n \div 10) + 1], Digits[(n % 10) + 1]>>

\* strings.Contains on token sequences.
Contains(line, sub) ==
    \E k \in 0..(Len(line) - Len(sub)) : SubSeq(line, k + 1, k + Len(sub)) = sub

RECURSIVE TrimLeft(_)
TrimLeft(line) ==
    IF line # <<>> /\ Head(line) = " " THEN TrimLeft(Tail(line)) ELSE line

RECURSIVE TrimRight(_)
TrimRight(line) ==
    IF line # <<>> /\ line[Len(line)] = " "
    THEN TrimRight(SubSeq(line, 1, Len(line) - 1))
    ELSE line

\* strings.TrimSpace
TrimSpace(line) == TrimRight(TrimLeft(line))

\* strings.Split(text, "\n"): the empty string splits into one empty line.
SplitLines(text) == IF text = EmptyText THEN << <<>> >> ELSE text

\* Variant: the alphabet has a ninth label.
Labels_Nine == <<"A", "B", "C", "D", "E", "F", "G", "H", "I">>

\* The label alphabet of buildReviewPrompt and parseRankings.
Labels == <<"A", "B", "C", "D", "E", "F", "G", "H">>

Min(a, b) == IF a < b THEN a ELSE b

RECURSIVE Concat(_)
Concat(seqs) == IF seqs = <<>> THEN <<>> ELSE Head(seqs) \o Concat(Tail(seqs))

\* ------------------------------------------------------------ usability
Usable(resp) == resp.Error = NoError /\ resp.Content # EmptyText

\* Variant: a response counts as soon as it has no error.
RECURSIVE SuccessCount_ErrorOnly(_)
SuccessCount_ErrorOnly(resps) ==
    IF resps = <<>> THEN 0
    ELSE (IF Head(resps).Error = NoError THEN 1 ELSE 0) + SuccessCount_ErrorOnly(Tail(resps))

RECURSIVE SuccessCount(_)
SuccessCount(resps) ==
    IF resps = <<>> THEN 0
    ELSE (IF Usable(Head(resps)) THEN 1 ELSE 0) + SuccessCount(Tail(resps))

\* Variant: every response is reviewed, failed or not.
SuccessfulResponses_All(resps) == resps

RECURSIVE SuccessfulResponses(_)
SuccessfulResponses(resps) ==
    IF resps = <<>> THEN <<>>
    ELSE (IF Usable(Head(resps)) THEN <<Head(resps)>> ELSE <<>>)
         \o SuccessfulResponses(Tail(resps))

\* Variant: the reviewer's own response stays in the view.
AnonymizedResponses_KeepsOwn(successful, i) == successful

\* The reviewer-excluded view built in conductPeerReview for reviewer i.
AnonymizedResponses(successful, i) ==
    SubSeq(successful, 1, i - 1) \o SubSeq(successful, i + 1, Len(successful))

\* --------------------------------------------------------------- prompts
\* Variant: the header of a response names the model that wrote it.
BuildReviewPrompt_Named(question, anonymized) ==
    << <<"You are an expert evaluator. Below are ">> \o Itoa(Len(anonymized))
          \o <<" different responses to the question: ", question>>,
       <<>>,
       <<"The responses are anonymized (labeled Response A, Response B, etc.).">>,
       <<>> >>
    \o Concat([i \in 1..Min(Len(anonymized), Len(Labels)) |->
                  << <<"## ", "Response ", Labels[i], " (", anonymized[i].Model, ")", ":">> >>
                  \o anonymized[i].Content \o << <<>> >>])
    \o << <<"Please evaluate these responses based on:">>,
          <<"Rank the responses from best to worst (1 = best) and explain your reasoning for each.">>,
          <<"Ranking", ":">>,
          <<"1", ".", " ", "Response ", "[X]", ":", " ", "[brief reasoning]">>,
          <<"2", ".", " ", "Response ", "[Y]", ":", " ", "[brief reasoning]">>,
          <<"Be objective and focus on the quality of the content, not stylistic preferences.">> >>

BuildReviewPrompt(question, anonymized) ==
    << <<"You are an expert evaluator. Below are ">> \o Itoa(Len(anonymized))
          \o <<" different responses to the question: ", question>>,
       <<>>,
       <<"The responses are anonymized (labeled Response A, Response B, etc.).">>,
       <<>> >>
    \o Concat([i \in 1..Min(Len(anonymized), Len(Labels)) |->
                  << <<"## ", "Response ", Labels[i], ":">> >>
                  \o anonymized[i].Content \o << <<>> >>])
    \o << <<"Please evaluate these responses based on:">>,
          <<"Rank the responses from best to worst (1 = best) and explain your reasoning for each.">>,
          <<"Ranking", ":">>,
          <<"1", ".", " ", "Response ", "[X]", ":", " ", "[brief reasoning]">>,
          <<"2", ".", " ", "Response ", "[Y]", ":", " ", "[brief reasoning]">>,
          <<"Be objective and focus on the quality of the content, not stylistic preferences.">> >>

\* Variant: the index counts from one.
Ranking_OneBased(idx, rank, reasoning) ==
    [ResponseIndex |-> idx + 1, Rank |-> rank, Reasoning |-> reasoning]

Ranking(idx, rank, reasoning) ==
    [ResponseIndex |-> idx, Rank |-> rank, Reasoning |-> reasoning]

\* Variant: the rank marker is not looked for.
LineMatches_LabelOnly(line, i, rank) ==
    Contains(line, <<"Response ", Labels[i]>>)

\* The test of line 613 for label number i (1-based) and the sought rank.
LineMatches(line, i, rank) ==
    /\ Contains(line, <<"Response ", Labels[i]>>)
    /\ \/ Contains(line, Itoa(rank) \o <<".">>)
       \/ Contains(line, Itoa(rank) \o <<":">>)

RECURSIVE ParseLines(_, _, _, _)
ParseLines(lines, numResponses, rank, rankings) ==
    IF lines = <<>> THEN rankings
    ELSE LET line == TrimSpace(Head(lines))
             hits == {i \in 1..Min(numResponses, Len(Labels)) : LineMatches(line, i, rank)}
         IN IF hits = {}
            THEN ParseLines(Tail(lines), numResponses, rank, rankings)
            ELSE LET i == CHOOSE h \in hits : \A o \in hits : h <= o
                 IN ParseLines(Tail(lines), numResponses, rank + 1,
                               Append(rankings, Ranking(i - 1, rank, line)))

ParseRankings(reviewContent, numResponses) ==
    ParseLines(SplitLines(reviewContent), numResponses, 1, <<>>)

Review(model, rankings, duration, error) ==
    [ReviewerModel |-> model, Rankings |-> rankings, Duration |-> duration, Error |-> error]

\* Variant: the section of a response holds its header only.
ResponseSection_NoContent(i, resp) ==
    << <<"### Response ">> \o Itoa(i) \o <<" - ", resp.Model, ":">>, <<>> >>

ResponseSection(i, resp) ==
    << <<"### Response ">> \o Itoa(i) \o <<" - ", resp.Model, ":">> >>
    \o (IF resp.Error # NoError
        THEN << <<"(Error: ">> \o resp.Error \o <<")">>, <<>> >>
        ELSE resp.Content \o << <<>> >>)

\* Variant: every review gets its block, whatever its outcome.
ReviewSection_All(review) ==
    << <<"**", review.ReviewerModel, "'s Review:**">> >>
    \o [k \in 1..Len(review.Rankings) |-> <<"- ">> \o review.Rankings[k].Reasoning]
    \o << <<>> >>

ReviewSection(review) ==
    IF review.Error = NoError /\ Len(review.Rankings) > 0
    THEN << <<"**", review.ReviewerModel, "'s Review:**">> >>
         \o [k \in 1..Len(review.Rankings) |-> <<"- ">> \o review.Rankings[k].Reasoning]
         \o << <<>> >>
    ELSE <<>>

BuildAggregationPrompt(originalQuestion, responses, reviews) ==
    << <<"You are the Chairman of an AI Council.">>,
       <<"Original Question: ", originalQuestion>>,
       <<"## Council Members' Responses:">> >>
    \o Concat([i \in 1..Len(responses) |-> ResponseSection(i, responses[i])])
    \o (IF Len(reviews) > 0
        THEN << <<"## Peer Review Results:">>,
                <<"Each model reviewed the others' responses. Here are their evaluations:">> >>
             \o Concat([k \in 1..Len(reviews) |-> ReviewSection(reviews[k])])
        ELSE <<>>)
    \o << <<"## Your Task as Chairman:">>, <<"Your final answer:">> >>

\* ----------------------------------------------------------------- state
VARIABLES
    models,        \* config.Models
    pc,            \* where Council.Execute is
    now,           \* the clock read by time.Now and time.Since
    mu,            \* Client.mu: the set of threads holding it (empty or one)
    call,          \* per thread: position, content, done channel, startTime
    responses,     \* the slice allocated by AskMultipleModels
    progress,      \* per thread: the invocations of the progress callback
    sent,          \* per Stage-1 goroutine: the prompts passed to session.Send
    result,        \* the Result built by Execute
    reviews,       \* conductPeerReview: the reviews collected so far
    revIdx,        \* conductPeerReview: the loop position (1-based)
    reviewStart,   \* Execute: reviewStart
    reviewCalls,   \* the AskSingleModel calls made by conductPeerReview
    aggCalls,      \* the AskSingleModel calls made by Execute
    returned,      \* what each AskSingleModel call returned, in order
    helper,        \* the last evaluation of a prompt or ranking helper on its own
    cli,           \* the command run: position, printed output, returned error, client
    sess,          \* one gateway call and its session, looked at event by event
    cancelled      \* whether the context passed to Execute has been cancelled

vars == <<models, pc, now, mu, call, responses, progress, sent, result, reviews,
          revIdx, reviewStart, reviewCalls, aggCalls, returned, helper, cli, sess, cancelled>>

\* Thread 0 is the goroutine running Execute (its AskSingleModel calls);
\* threads 1..Len(models) are the goroutines of AskMultipleModels.
Main == 0

Workers == 1..Len(models)

Threads == {Main} \cup Workers

CallState(p, content, done, start) ==
    [pc |-> p, content |-> content, done |-> done, start |-> start]

IdleCall == CallState("idle", EmptyText, FALSE, 0)

EmptyMap == [m \in {} |-> EmptyText]

ZeroResult ==
    [ModelResponses |-> <<>>, Reviews |-> <<>>, AggregatedResponse |-> EmptyText,
     AggregationDuration |-> 0, ReviewDuration |-> 0, InitialPrompt |-> "",
     ReviewPrompts |-> EmptyMap, AggregationPrompt |-> EmptyText, Error |-> NoError]

Invocation(model, duration, error) ==
    [Model |-> model, Duration |-> duration, Error |-> error]

SingleCall(model, prompt) == [Model |-> model, Prompt |-> prompt]

Terminal == {"AllFailed", "Done", "Stage3Failed"}

\* No helper has been evaluated on its own.
NoHelper == [op |-> "none"]

\* The command has not started.
NoRun ==
    [pc |-> "start", given |-> FALSE, out |-> <<>>, err |-> NoError, client |-> "none",
     noSpinner |-> TRUE, spinners |-> {}, inMap |-> {}, stopped |-> {}]

\* No gateway call is looked at on its own.
NoSession ==
    [pc |-> "none", created |-> FALSE, handler |-> FALSE, closes |-> 0, content |-> EmptyText,
     events |-> <<>>, missed |-> 0, log |-> <<>>, expired |-> FALSE, ret |-> [Content |-> EmptyText, Error |-> NoError]]

\* The state before anything ran, for a configured participant list.
InitWith(lists, command) ==
    /\ models \in lists
    /\ pc = "Idle"
    /\ now = 0
    /\ mu = {}
    /\ call = [t \in {Main} \cup (1..Len(models)) |-> IdleCall]
    /\ responses = <<>>
    /\ progress = [t \in {Main} \cup (1..Len(models)) |-> <<>>]
    /\ sent = [t \in 1..Len(models) |-> <<>>]
    /\ result = ZeroResult
    /\ reviews = <<>>
    /\ revIdx = 1
    /\ reviewStart = 0
    /\ reviewCalls = <<>>
    /\ aggCalls = <<>>
    /\ returned = <<>>
    /\ helper = NoHelper
    /\ cli = command
    /\ sess = NoSession
    /\ cancelled = FALSE

Init == InitWith(ModelLists, NoRun)

\* time.Since(startTime) of thread t
Since(t) == now - call[t].start

\* ----------------------------------------------------- Execute, Stage 1
\* Execute up to the point where AskMultipleModels has started one
\* goroutine per model and waits on the WaitGroup.
ExecuteStart ==
    /\ pc = "Idle"
    /\ pc' = "Stage1Running"
    /\ result' = [ZeroResult EXCEPT !.InitialPrompt = Question]
    /\ responses' = [i \in Workers |-> ZeroResponse]
    /\ call' = [t \in Threads |-> IF t = Main THEN IdleCall
                                  ELSE CallState("start", EmptyText, FALSE, 0)]
    /\ UNCHANGED <<models, now, mu, progress, sent, reviews, revIdx, reviewStart,
                   reviewCalls, aggCalls, returned, helper, cli, sess, cancelled>>

\* The goroutine reads the clock and calls CreateSession.
G_Begin(i) ==
    /\ call[i].pc = "start"
    /\ call' = [call EXCEPT ![i] = CallState("lock", EmptyText, FALSE, now)]
    /\ UNCHANGED <<models, pc, now, mu, responses, progress, sent, result, reviews,
                   revIdx, reviewStart, reviewCalls, aggCalls, returned, helper, cli, sess, cancelled>>

\* Variant: CreateSession does not take the mutex.
CreateSession_Lock_NoMutex(t) ==
    /\ call[t].pc = "lock"
    /\ mu' = mu \cup {t}
    /\ call' = [call EXCEPT ![t].pc = "creating"]
    /\ UNCHANGED <<models, pc, now, responses, progress, sent, result, reviews,
                   revIdx, reviewStart, reviewCalls, aggCalls, returned, helper, cli, sess, cancelled>>

\* Client.CreateSession: c.mu.Lock()
CreateSession_Lock(t) ==
    /\ call[t].pc = "lock"
    /\ mu = {}
    /\ mu' = {t}
    /\ call' = [call EXCEPT ![t].pc = "creating"]
    /\ UNCHANGED <<models, pc, now, responses, progress, sent, result, reviews,
                   revIdx, reviewStart, reviewCalls, aggCalls, returned, helper, cli, sess, cancelled>>

\* Variant: the goroutines share the loop variable and all write the slot it
\* ends on.
G_Finish_LastSlot(i, resp, reported) ==
    /\ responses' = [responses EXCEPT ![Len(models)] = resp]
    /\ progress' = [progress EXCEPT ![i] = Append(@, Invocation(models[i], resp.Duration, reported))]
    /\ call' = [call EXCEPT ![i] = CallState("done", call[i].content, call[i].done, 0)]

\* Variant: a goroutine ends without reporting progress.
G_Finish_NoProgress(i, resp, reported) ==
    /\ responses' = [responses EXCEPT ![i] = resp]
    /\ progress' = progress
    /\ call' = [call EXCEPT ![i] = CallState("done", call[i].content, call[i].done, 0)]

\* A goroutine stores its Response in its own slot, reports progress and ends.
\* Its own locals (startTime, resp) are gone with it; content and done are
\* captured by the session's handler and stay as they are.
G_Finish(i, resp, reported) ==
    /\ responses' = [responses EXCEPT ![i] = resp]
    /\ progress' = [progress EXCEPT ![i] = Append(@, Invocation(models[i], resp.Duration, reported))]
    /\ call' = [call EXCEPT ![i] = CallState("done", call[i].content, call[i].done, 0)]

\* CreateSession returned an error (the deferred Unlock runs).
G_CreateFail(i) ==
    /\ i \in Workers
    /\ call[i].pc = "creating"
    /\ mu' = {}
    /\ G_Finish(i, Response(models[i], EmptyText, ErrCreateSession(models[i]), Since(i)),
                ErrCreateSession(models[i]))
    /\ UNCHANGED <<models, pc, now, sent, result, reviews, revIdx, reviewStart,
                   reviewCalls, aggCalls, returned, helper, cli, sess, cancelled>>

\* Variant: the prompt sent is the question with a preamble.
G_CreateOk_Decorated(i) ==
    /\ i \in Workers
    /\ call[i].pc = "creating"
    /\ mu' = {}
    /\ call' = [call EXCEPT ![i].pc = "send"]
    /\ sent' = [sent EXCEPT ![i] = Append(@, "Please answer: question")]
    /\ UNCHANGED <<models, pc, now, responses, progress, result, reviews, revIdx,
                   reviewStart, reviewCalls, aggCalls, returned, helper, cli, sess, cancelled>>

\* CreateSession succeeded: the handler is registered and Send is called.
G_CreateOk(i) ==
    /\ i \in Workers
    /\ call[i].pc = "creating"
    /\ mu' = {}
    /\ call' = [call EXCEPT ![i].pc = "send"]
    /\ sent' = [sent EXCEPT ![i] = Append(@, result.InitialPrompt)]
    /\ UNCHANGED <<models, pc, now, responses, progress, result, reviews, revIdx,
                   reviewStart, reviewCalls, aggCalls, returned, helper, cli, sess, cancelled>>

\* session.Send returned an error.
G_SendFail(i) ==
    /\ i \in Workers
    /\ call[i].pc = "send"
    /\ G_Finish(i, Response(models[i], EmptyText, ErrSend, Since(i)), ErrSendRaw)
    /\ UNCHANGED <<models, pc, now, mu, sent, result, reviews, revIdx, reviewStart,
                   reviewCalls, aggCalls, returned, helper, cli, sess, cancelled>>

G_SendOk(i) ==
    /\ i \in Workers
    /\ call[i].pc = "send"
    /\ call' = [call EXCEPT ![i].pc = "wait"]
    /\ UNCHANGED <<models, pc, now, mu, responses, progress, sent, result, reviews,
                   revIdx, reviewStart, reviewCalls, aggCalls, returned, helper, cli, sess, cancelled>>

\* The handler receives assistant.message with a non-nil content.
G_Message(i) ==
    /\ i \in Workers
    /\ call[i].pc = "wait"
    /\ ~call[i].done
    /\ call' = [call EXCEPT ![i].content = Answer(i)]
    /\ UNCHANGED <<models, pc, now, mu, responses, progress, sent, result, reviews,
                   revIdx, reviewStart, reviewCalls, aggCalls, returned, helper, cli, sess, cancelled>>

\* The handler receives session.idle and closes done.
G_Idle(i) ==
    /\ i \in Workers
    /\ call[i].pc = "wait"
    /\ ~call[i].done
    /\ call' = [call EXCEPT ![i].done = TRUE]
    /\ UNCHANGED <<models, pc, now, mu, responses, progress, sent, result, reviews,
                   revIdx, reviewStart, reviewCalls, aggCalls, returned, helper, cli, sess, cancelled>>

\* select: case <-done
G_SelectDone(i) ==
    /\ i \in Workers
    /\ call[i].pc = "wait"
    /\ call[i].done
    /\ G_Finish(i, Response(models[i], call[i].content, NoError, Since(i)), NoError)
    /\ UNCHANGED <<models, pc, now, mu, sent, result, reviews, revIdx, reviewStart,
                   reviewCalls, aggCalls, returned, helper, cli, sess, cancelled>>

\* Variant: the deadline case returns the text received so far.
G_SelectTimeout_KeepsContent(i) ==
    /\ i \in Workers
    /\ call[i].pc = "wait"
    /\ G_Finish(i, Response(models[i], call[i].content, ErrTimeout, Since(i)), ErrTimeout)
    /\ UNCHANGED <<models, pc, now, mu, sent, result, reviews, revIdx, reviewStart,
                   reviewCalls, aggCalls, returned, helper, cli, sess, cancelled>>

\* Variant: the select has no deadline case and waits for done alone.
G_SelectTimeout_NoDeadline(i) ==
    /\ i \in Workers
    /\ call[i].pc = "wait"
    /\ call[i].done
    /\ G_Finish(i, Response(models[i], call[i].content, NoError, Since(i)), NoError)
    /\ UNCHANGED <<models, pc, now, mu, sent, result, reviews, revIdx, reviewStart,
                   reviewCalls, aggCalls, returned, helper, cli, sess, cancelled>>

\* select: case <-askCtx.Done() (the deadline of this call has passed; when
\* done is closed too, select takes either case)
G_SelectTimeout(i) ==
    /\ i \in Workers
    /\ call[i].pc = "wait"
    /\ G_Finish(i, Response(models[i], EmptyText, ErrTimeout, Since(i)), ErrTimeout)
    /\ UNCHANGED <<models, pc, now, mu, sent, result, reviews, revIdx, reviewStart,
                   reviewCalls, aggCalls, returned, helper, cli, sess, cancelled>>

\* Variant: the handler stores the text of a late message in the slot.
G_LateMessage_WritesSlot(i) ==
    /\ i \in Workers
    /\ call[i].pc = "done"
    /\ responses[i].Error = ErrTimeout
    /\ ~call[i].done
    /\ call' = [call EXCEPT ![i].content = Answer(i)]
    /\ responses' = [responses EXCEPT ![i].Content = Answer(i)]
    /\ UNCHANGED <<models, pc, now, mu, progress, sent, result, reviews,
                   revIdx, reviewStart, reviewCalls, aggCalls, returned, helper, cli, sess, cancelled>>

\* The handler receives assistant.message after the select has taken the
\* deadline case: it assigns content, which nothing reads any more.
G_LateMessage(i) ==
    /\ i \in Workers
    /\ call[i].pc = "done"
    /\ responses[i].Error = ErrTimeout
    /\ ~call[i].done
    /\ call' = [call EXCEPT ![i].content = Answer(i)]
    /\ UNCHANGED <<models, pc, now, mu, responses, progress, sent, result, reviews,
                   revIdx, reviewStart, reviewCalls, aggCalls, returned, helper, cli, sess, cancelled>>

\* The handler receives session.idle after the select has taken the deadline
\* case: it closes done, which nothing waits for any more.
G_LateIdle(i) ==
    /\ i \in Workers
    /\ call[i].pc = "done"
    /\ responses[i].Error = ErrTimeout
    /\ ~call[i].done
    /\ call' = [call EXCEPT ![i].done = TRUE]
    /\ UNCHANGED <<models, pc, now, mu, responses, progress, sent, result, reviews,
                   revIdx, reviewStart, reviewCalls, aggCalls, returned, helper, cli, sess, cancelled>>

\* Every step the call of goroutine i can take: those of the goroutine itself
\* and the session events delivered to its handler.
CallStep(i) ==
    /\ i \in Workers
    /\ \/ G_Begin(i)
       \/ CreateSession_Lock(i)
       \/ G_CreateFail(i)
       \/ G_CreateOk(i)
       \/ G_SendFail(i)
       \/ G_SendOk(i)
       \/ G_Message(i)
       \/ G_Idle(i)
       \/ G_SelectDone(i)
       \/ G_SelectTimeout(i)

\* Variant: the wait ends with the first goroutine that is done.
WaitGroupDone_Any == \E i \in Workers : call[i].pc = "done"

\* wg.Wait() can return: every goroutine has called wg.Done().
WaitGroupDone == \A i \in Workers : call[i].pc = "done"

\* wg.Wait() returns, AskMultipleModels returns, Execute counts the usable
\* responses and either fails or enters conductPeerReview.
Join ==
    /\ pc = "Stage1Running"
    /\ WaitGroupDone
    /\ IF SuccessCount(responses) = 0
       THEN /\ result' = [result EXCEPT !.ModelResponses = responses, !.Error = ErrAllFailed]
            /\ pc' = "AllFailed"
            /\ UNCHANGED reviewStart
       ELSE /\ result' = [result EXCEPT !.ModelResponses = responses]
            /\ pc' = "Stage2Running"
            /\ reviewStart' = now
    /\ reviews' = <<>>
    /\ revIdx' = 1
    /\ UNCHANGED <<models, now, mu, call, responses, progress, sent, reviewCalls, aggCalls,
                   returned, helper, cli, sess, cancelled>>

\* ------------------------------------------- conductPeerReview, Stage 2
Successful == SuccessfulResponses(result.ModelResponses)

Reviewer == Successful[revIdx]

Anonymized == AnonymizedResponses(Successful, revIdx)

\* Variant: the review is never skipped.
ReviewSkipped_Never(successful) == Len(successful) < 1

\* The threshold below which conductPeerReview returns at once.
ReviewSkipped(successful) == Len(successful) < 2

\* AskSingleModel is entered: it reads the clock and calls CreateSession.
EnterSingleCall == CallState("lock", EmptyText, FALSE, now)

\* Variant: the loop starts the next review without waiting for the call in
\* flight to return.
ReviewCall_NoWait ==
    /\ pc = "Stage2Running"
    /\ ~ReviewSkipped(Successful)
    /\ revIdx <= Len(Successful)
    /\ LET reviewPrompt == BuildReviewPrompt(Question, Anonymized)
       IN /\ result' = [result EXCEPT !.ReviewPrompts = (Reviewer.Model :> reviewPrompt) @@ @]
          /\ reviewCalls' = Append(reviewCalls, SingleCall(Reviewer.Model, reviewPrompt))
    /\ call' = [call EXCEPT ![Main] = EnterSingleCall]
    /\ UNCHANGED <<models, pc, now, mu, responses, progress, sent, reviews, revIdx,
                   reviewStart, aggCalls, returned, helper, cli, sess, cancelled>>

\* One iteration of the reviewer loop up to its AskSingleModel call.
ReviewCall ==
    /\ pc = "Stage2Running"
    /\ call[Main].pc = "idle"
    /\ ~ReviewSkipped(Successful)
    /\ revIdx <= Len(Successful)
    /\ LET reviewPrompt == BuildReviewPrompt(Question, Anonymized)
       IN /\ result' = [result EXCEPT !.ReviewPrompts = (Reviewer.Model :> reviewPrompt) @@ @]
          /\ reviewCalls' = Append(reviewCalls, SingleCall(Reviewer.Model, reviewPrompt))
    /\ call' = [call EXCEPT ![Main] = EnterSingleCall]
    /\ UNCHANGED <<models, pc, now, mu, responses, progress, sent, reviews, revIdx,
                   reviewStart, aggCalls, returned, helper, cli, sess, cancelled>>

\* conductPeerReview returns (at once when skipped, else after the loop);
\* Execute records the reviews and their duration, builds the aggregation
\* prompt and calls AskSingleModel for the aggregator.
ReviewFinish ==
    /\ pc = "Stage2Running"
    /\ call[Main].pc = "idle"
    /\ ReviewSkipped(Successful) \/ revIdx > Len(Successful)
    /\ LET aggregationPrompt == BuildAggregationPrompt(Question, result.ModelResponses, reviews)
       IN /\ result' = [result EXCEPT !.Reviews = reviews,
                                      !.ReviewDuration = now - reviewStart,
                                      !.AggregationPrompt = aggregationPrompt]
          /\ aggCalls' = Append(aggCalls, SingleCall(Aggregator, aggregationPrompt))
    /\ pc' = "Stage3Running"
    /\ call' = [call EXCEPT ![Main] = EnterSingleCall]
    /\ UNCHANGED <<models, now, mu, responses, progress, sent, reviews, revIdx,
                   reviewStart, reviewCalls, returned, helper, cli, sess, cancelled>>

\* Variant: a failed review is dropped instead of recorded.
ReviewReturned_SkipFailed(content, duration, err) ==
    /\ progress' = [progress EXCEPT ![Main] =
                       Append(@, Invocation(<<Reviewer.Model, " (review)">>, duration, err))]
    /\ reviews' = IF err = NoError
                  THEN Append(reviews,
                              Review(Reviewer.Model, ParseRankings(content, Len(Anonymized)),
                                     duration, err))
                  ELSE reviews
    /\ revIdx' = revIdx + 1
    /\ UNCHANGED <<pc, result>>

\* Variant: a failed review becomes the failure of the pipeline.
ReviewReturned_RaisesError(content, duration, err) ==
    /\ progress' = [progress EXCEPT ![Main] =
                       Append(@, Invocation(<<Reviewer.Model, " (review)">>, duration, err))]
    /\ reviews' = Append(reviews,
                         Review(Reviewer.Model,
                                IF err = NoError
                                THEN ParseRankings(content, Len(Anonymized))
                                ELSE <<>>,
                                duration, err))
    /\ revIdx' = revIdx + 1
    /\ result' = IF err = NoError THEN result ELSE [result EXCEPT !.Error = err]
    /\ UNCHANGED pc

\* The rest of a loop iteration after AskSingleModel returned.
ReviewReturned(content, duration, err) ==
    /\ progress' = [progress EXCEPT ![Main] =
                       Append(@, Invocation(<<Reviewer.Model, " (review)">>, duration, err))]
    /\ reviews' = Append(reviews,
                         Review(Reviewer.Model,
                                IF err = NoError
                                THEN ParseRankings(content, Len(Anonymized))
                                ELSE <<>>,
                                duration, err))
    /\ revIdx' = revIdx + 1
    /\ UNCHANGED <<pc, result>>

\* ------------------------------------------------------ Execute, Stage 3
\* Variant: a failed aggregation returns a fresh Result with the error only.
AggregationReturned_DropsData(content, duration, err) ==
    /\ IF err # NoError
       THEN /\ result' = [ZeroResult EXCEPT !.Error = ErrAggregation(err)]
            /\ pc' = "Stage3Failed"
       ELSE /\ result' = [result EXCEPT !.AggregatedResponse = content,
                                        !.AggregationDuration = duration]
            /\ pc' = "Done"
    /\ UNCHANGED <<progress, reviews, revIdx>>

AggregationReturned(content, duration, err) ==
    /\ IF err # NoError
       THEN /\ result' = [result EXCEPT !.Error = ErrAggregation(err)]
            /\ pc' = "Stage3Failed"
       ELSE /\ result' = [result EXCEPT !.AggregatedResponse = content,
                                        !.AggregationDuration = duration]
            /\ pc' = "Done"
    /\ UNCHANGED <<progress, reviews, revIdx>>

\* --------------------------------------------------------- AskSingleModel
CurrentModel == IF pc = "Stage2Running" THEN Reviewer.Model ELSE Aggregator

\* What the gateway can answer to the prompt of the current single call.
SingleTexts == IF pc = "Stage2Running" THEN ReviewTexts ELSE {SynthesizedText}

\* AskSingleModel returns (content, time.Since(startTime), err) to its caller.
S_Return(content, err) ==
    /\ call' = [call EXCEPT ![Main] = IdleCall]
    /\ returned' = Append(returned, [Content |-> content, Error |-> err])
    /\ IF pc = "Stage2Running"
       THEN ReviewReturned(content, Since(Main), err)
       ELSE AggregationReturned(content, Since(Main), err)

S_CreateFail ==
    /\ call[Main].pc = "creating"
    /\ mu' = {}
    /\ S_Return(EmptyText, ErrCreateSession(CurrentModel))
    /\ UNCHANGED <<models, now, responses, sent, reviewStart, reviewCalls, aggCalls, helper, cli, sess, cancelled>>

S_CreateOk ==
    /\ call[Main].pc = "creating"
    /\ mu' = {}
    /\ call' = [call EXCEPT ![Main].pc = "send"]
    /\ UNCHANGED <<models, pc, now, responses, progress, sent, result, reviews, revIdx,
                   reviewStart, reviewCalls, aggCalls, returned, helper, cli, sess, cancelled>>

S_SendFail ==
    /\ call[Main].pc = "send"
    /\ S_Return(EmptyText, ErrSend)
    /\ UNCHANGED <<models, now, mu, responses, sent, reviewStart, reviewCalls, aggCalls, helper, cli, sess, cancelled>>

S_SendOk ==
    /\ call[Main].pc = "send"
    /\ call' = [call EXCEPT ![Main].pc = "wait"]
    /\ UNCHANGED <<models, pc, now, mu, responses, progress, sent, result, reviews,
                   revIdx, reviewStart, reviewCalls, aggCalls, returned, helper, cli, sess, cancelled>>

S_Message(text) ==
    /\ call[Main].pc = "wait"
    /\ ~call[Main].done
    /\ text \in SingleTexts
    /\ call' = [call EXCEPT ![Main].content = text]
    /\ UNCHANGED <<models, pc, now, mu, responses, progress, sent, result, reviews,
                   revIdx, reviewStart, reviewCalls, aggCalls, returned, helper, cli, sess, cancelled>>

S_Idle ==
    /\ call[Main].pc = "wait"
    /\ ~call[Main].done
    /\ call' = [call EXCEPT ![Main].done = TRUE]
    /\ UNCHANGED <<models, pc, now, mu, responses, progress, sent, result, reviews,
                   revIdx, reviewStart, reviewCalls, aggCalls, returned, helper, cli, sess, cancelled>>

\* select: case <-done
S_SelectDone ==
    /\ call[Main].pc = "wait"
    /\ call[Main].done
    /\ S_Return(call[Main].content, NoError)
    /\ UNCHANGED <<models, now, mu, responses, sent, reviewStart, reviewCalls, aggCalls, helper, cli, sess, cancelled>>

\* select: case <-askCtx.Done()
S_SelectTimeout ==
    /\ call[Main].pc = "wait"
    /\ S_Return(EmptyText, ErrTimeout)
    /\ UNCHANGED <<models, now, mu, responses, sent, reviewStart, reviewCalls, aggCalls, helper, cli, sess, cancelled>>

\* ------------------------------------------------------------------ time
Tick ==
    /\ pc \notin Terminal \cup {"Idle"}
    /\ now < MaxTime
    /\ now' = now + 1
    /\ UNCHANGED <<models, pc, mu, call, responses, progress, sent, result, reviews,
                   revIdx, reviewStart, reviewCalls, aggCalls, returned, helper, cli, sess, cancelled>>

\* Every step of the program (the clock aside).
Step ==
    \/ ExecuteStart
    \/ \E i \in Workers : G_Begin(i)
    \/ \E t \in Threads : CreateSession_Lock(t)
    \/ \E i \in Workers : G_CreateFail(i)
    \/ \E i \in Workers : G_CreateOk(i)
    \/ \E i \in Workers : G_SendFail(i)
    \/ \E i \in Workers : G_SendOk(i)
    \/ \E i \in Workers : G_Message(i)
    \/ \E i \in Workers : G_Idle(i)
    \/ \E i \in Workers : G_SelectDone(i)
    \/ \E i \in Workers : G_SelectTimeout(i)
    \/ Join
    \/ ReviewCall
    \/ ReviewFinish
    \/ S_CreateFail
    \/ S_CreateOk
    \/ S_SendFail
    \/ S_SendOk
    \/ \E text \in ReviewTexts \cup {SynthesizedText} : S_Message(text)
    \/ S_Idle
    \/ S_SelectDone
    \/ S_SelectTimeout

Next == Step \/ Tick

Spec == Init /\ [][Next]_vars

\* ------------------------------------------------ the fan-out on its own
\* AskMultipleModels from the call by Execute to the return of wg.Wait(),
\* with the session events that can still arrive for a call that timed out.
FanOutStep ==
    \/ ExecuteStart
    \/ \E i \in Workers : CallStep(i)
    \/ \E i \in Workers : G_LateMessage(i)
    \/ \E i \in Workers : G_LateIdle(i)
    \/ Join

FanOutNext == FanOutStep \/ Tick

\* The select statement of goroutine i.
Select(i) == G_SelectDone(i) \/ G_SelectTimeout(i)

\* The Go runtime runs a goroutine that can run: a select with a ready case
\* (done closed, or the deadline of askCtx passed, which the timer of
\* context.WithTimeout guarantees) is executed, and wg.Wait() returns once
\* the counter is zero.  Nothing is assumed about the SDK: CreateSession and
\* Send need not return, events need not arrive.
FanOutFair ==
    /\ Init
    /\ [][FanOutNext]_vars
    /\ WF_vars(\E i \in Workers : Select(i))
    /\ WF_vars(Join)

\* ------------------------------------------- one review, without the call
\* One iteration of the reviewer loop of conductPeerReview evaluated on its
\* own: the view and the prompt of reviewer i over n usable responses, and
\* the rankings parsed from a review text, for lists longer than a run of
\* the whole program is given here.
Questions == {Question, "another question"}

\* Usable answer j: one line, or two when j is even.
PoolAnswer(j) ==
    IF j % 2 = 0
    THEN << <<"answer-">> \o Itoa(j), <<"more of answer-">> \o Itoa(j) >>
    ELSE << <<"answer-">> \o Itoa(j) >>

PoolModel(j, shift) == ModelPool[((j + shift) % Len(ModelPool)) + 1]

SuccessfulPool(n, shift, duration) ==
    [j \in 1..n |-> Response(PoolModel(j, shift), PoolAnswer(j), NoError, duration)]

\* The same responses written by other models in other times, the
\* reviewer's own response replaced by another text.
TwinPool(n, shift, i) ==
    [j \in 1..n |->
        IF j = i THEN Response(PoolModel(j, shift + 1), << <<"another own answer">> >>, NoError, 1)
        ELSE Response(PoolModel(j, shift + 1), PoolAnswer(j), NoError, 1)]

\* A review that ranks labels inside and outside the alphabet.
BeyondReview ==
    << <<"1", ".", " ", "Response ", "I", ":", " ", "the ninth">>,
       <<"1", ".", " ", "Response ", "H", ":", " ", "the eighth">>,
       <<"2", ".", " ", "Response ", "J", ":", " ", "the tenth">>,
       <<"2", ".", " ", "Response ", "A", ":", " ", "the first">> >>

ParseTexts == ReviewTexts \cup {BeyondReview}

P_Review(question, n, i, shift, reviewContent) ==
    /\ helper = NoHelper
    /\ LET successful == SuccessfulPool(n, shift, 0)
           twin == TwinPool(n, shift, i)
           anonymized == AnonymizedResponses(successful, i)
       IN helper' = [op |-> "review",
                     successful |-> successful,
                     twin |-> twin,
                     reviewer |-> i,
                     prompt |-> BuildReviewPrompt(question, anonymized),
                     twinPrompt |-> BuildReviewPrompt(question, AnonymizedResponses(twin, i)),
                     reviewContent |-> reviewContent,
                     rankings |-> ParseRankings(reviewContent, Len(anonymized))]
    /\ UNCHANGED <<models, pc, now, mu, call, responses, progress, sent, result, reviews,
                   revIdx, reviewStart, reviewCalls, aggCalls, returned, cli, sess, cancelled>>

\* A review line in the format the review prompt asks for:
\* "<rank>. Response <label>: <reasoning>".
FormatLine(rank, label) ==
    Itoa(rank) \o <<".", " ", "Response ", label, ":", " ", "reasoning">>

\* Lines a reviewer can write: formatted lines for the first ranks and
\* labels, and lines that depart from the format.
ReviewLines ==
    {FormatLine(rank, Labels[x]) : rank \in 1..2, x \in 1..2}
    \cup {FormatLine(3, Labels[3])}
    \cup { <<"I liked them both">>,
           <<" ", "2", ":", " ", "Response ", "C", " ">>,
           <<"1", "1", ".", " ", "Response ", "A", ":", " ", "reasoning">>,
           <<"3", ".", " ", "Response ", "B", " beats ", "Response ", "A">> }

\* Review texts of at most MaxLines lines, and the named texts.
RankingTexts ==
    UNION {[1..len -> ReviewLines] : len \in 1..MaxLines}
    \cup ParseTexts \cup {EmptyText}

\* Numbers of anonymized responses a reviewer can be shown.
ResponseCounts == {0, 1, 2, 3, MaxAnswers}

\* parseRankings evaluated on its own on a review text.
P_ParseRankings(reviewContent, numResponses) ==
    /\ helper = NoHelper
    /\ helper' = [op |-> "parse",
                  reviewContent |-> reviewContent,
                  numResponses |-> numResponses,
                  rankings |-> ParseRankings(reviewContent, numResponses)]
    /\ UNCHANGED <<models, pc, now, mu, call, responses, progress, sent, result, reviews,
                   revIdx, reviewStart, reviewCalls, aggCalls, returned, cli, sess, cancelled>>

\* Outcomes of a Stage-1 call and of a review call.
CallKinds == {"answered", "failed", "empty"}

ReviewKinds == {"ranked", "unparseable", "failed"}

\* A review that ranks the first labels in order.
OrderedReview == << FormatLine(1, Labels[1]), FormatLine(2, Labels[2]) >>

\* The Stage-1 responses of the given outcomes.
KindResponses(kinds) ==
    [j \in 1..Len(kinds) |->
        CASE kinds[j] = "answered" -> Response(PoolModel(j, 0), PoolAnswer(j), NoError, 0)
          [] kinds[j] = "failed" -> Response(PoolModel(j, 0), EmptyText, ErrTimeout, 0)
          [] OTHER -> Response(PoolModel(j, 0), EmptyText, NoError, 0)]

\* The reviews conductPeerReview returns for the usable responses, reviewer
\* k with the given outcome: none when fewer than two are usable.
KindReviews(resps, rkinds) ==
    LET successful == SuccessfulResponses(resps)
    IN IF Len(successful) < 2 THEN <<>>
       ELSE [k \in 1..Len(successful) |->
               CASE rkinds[k] = "ranked" ->
                        Review(successful[k].Model,
                               ParseRankings(OrderedReview, Len(successful) - 1), 0, NoError)
                 [] rkinds[k] = "unparseable" ->
                        Review(successful[k].Model,
                               ParseRankings(UnparseableReview, Len(successful) - 1), 0, NoError)
                 [] OTHER -> Review(successful[k].Model, <<>>, 0, ErrTimeout)]

\* The number of reviews Stage 2 returns for Stage-1 calls of these outcomes.
ReviewCount(kinds) ==
    LET answered == Cardinality({j \in 1..Len(kinds) : kinds[j] = "answered"})
    IN IF answered < 2 THEN 0 ELSE answered

\* buildAggregationPrompt evaluated on its own, on the Stage-1 responses
\* and reviews of a run that reaches Stage 3.
P_BuildAggregationPrompt(question, kinds, rkinds) ==
    /\ helper = NoHelper
    /\ LET rs == KindResponses(kinds)
           vs == KindReviews(rs, rkinds)
       IN /\ SuccessCount(rs) > 0
          /\ Len(rkinds) = ReviewCount(kinds)
          /\ helper' = [op |-> "aggregate",
                        question |-> question,
                        responses |-> rs,
                        reviews |-> vs,
                        prompt |-> BuildAggregationPrompt(question, rs, vs)]
    /\ UNCHANGED <<models, pc, now, mu, call, responses, progress, sent, result, reviews,
                   revIdx, reviewStart, reviewCalls, aggCalls, returned, cli, sess, cancelled>>

ReviewNext ==
    \/ \E question \in Questions, n \in 2..MaxAnswers, shift \in 0..1, reviewContent \in ParseTexts :
          \E i \in 1..n : P_Review(question, n, i, shift, reviewContent)
    \/ \E reviewContent \in RankingTexts, numResponses \in ResponseCounts :
          P_ParseRankings(reviewContent, numResponses)
    \/ \E question \in Questions, n \in 1..4 :
          \E kinds \in [1..n -> CallKinds] :
              \E rkinds \in [1..ReviewCount(kinds) -> ReviewKinds] :
                  P_BuildAggregationPrompt(question, kinds, rkinds)

ReviewInit == Init /\ models = DefaultModels

ReviewSpec == ReviewInit /\ [][ReviewNext]_vars

\* ------------------------------------------- Execute under cancellation
\* Execute with a parent context that its caller may cancel, and per-call
\* timeouts that are long: no call reaches the deadline of its own timer,
\* so a deadline case is taken only through the parent.

\* Variant: the context of a call is built on context.Background().
CtxDone_Detached == FALSE

\* askCtx.Done() is closed: askCtx is context.WithTimeout(ctx, timeout),
\* which is done as soon as ctx is.
CtxDone == cancelled

\* The caller of Execute cancels ctx.
Cancel ==
    /\ pc \notin Terminal \cup {"Idle"}
    /\ ~cancelled
    /\ cancelled' = TRUE
    /\ UNCHANGED <<models, pc, now, mu, call, responses, progress, sent, result, reviews,
                   revIdx, reviewStart, reviewCalls, aggCalls, returned, helper, cli, sess>>

\* A select took its askCtx.Done() case.
TookDeadlineCase == (\E i \in Workers : G_SelectTimeout(i)) \/ S_SelectTimeout

\* The session of some call delivered an event.
SessionEvent ==
    \/ \E i \in Workers : G_Message(i) \/ G_Idle(i)
    \/ \E text \in ReviewTexts \cup {SynthesizedText} : S_Message(text)
    \/ S_Idle

CancelStep == Step /\ (TookDeadlineCase => CtxDone)

\* A step of the program itself or the return of an SDK call, as opposed
\* to an event of a session.
ProgramStep == CancelStep /\ ~SessionEvent

CancelNext == CancelStep \/ Cancel

CancelInit == InitWith({DistinctModels(2)}, NoRun)

CancelSpec == CancelInit /\ [][CancelNext]_vars

\* The Go runtime runs a goroutine that can run (a select with a ready
\* case, wg.Wait() at zero, the next statement of Execute), the mutex of
\* Client is handed to a waiter once it is free, and the SDK's
\* CreateSession and Send return.  Sessions need not deliver any event.
CancelFair == CancelSpec /\ WF_vars(ProgramStep)

\* ------------------------------------------------- one call, by events
\* One gateway call (the body of a Stage-1 goroutine, which is also the
\* body of AskSingleModel) with its session: the SDK calls it makes in
\* order (log), the events the session delivers and what the handler does
\* with each.  The handler runs on the SDK's goroutine, so events arrive
\* at any point after the prompt was sent.
SessionTexts == {Answer(1), Answer(2)}

\* assistant.message with a content, assistant.message with a nil content,
\* session.idle.
MessageEvent(has, content) == [type |-> "assistant.message", has |-> has, content |-> content]

IdleEvent == [type |-> "session.idle", has |-> FALSE, content |-> EmptyText]

MessageEvents == {MessageEvent(TRUE, c) : c \in SessionTexts} \cup {MessageEvent(FALSE, EmptyText)}

OtherFrame ==
    UNCHANGED <<models, pc, now, mu, call, responses, progress, sent, result, reviews,
                revIdx, reviewStart, reviewCalls, aggCalls, returned, helper, cli, cancelled>>

\* The call starts: it reads the clock, derives its context and calls
\* CreateSession.
Call_Start ==
    /\ sess.pc = "none"
    /\ sess' = [sess EXCEPT !.pc = "creating"]
    /\ OtherFrame

\* CreateSession failed: the call returns the error; there is no session.
Call_CreateFail ==
    /\ sess.pc = "creating"
    /\ sess' = [sess EXCEPT !.pc = "returned",
                            !.log = Append(@, "CreateSession"),
                            !.ret = [Content |-> EmptyText, Error |-> ErrCreateSession(ModelPool[1])]]
    /\ OtherFrame

\* Variant: the handler is not registered.
Call_CreateOk_Unregistered ==
    /\ sess.pc = "creating"
    /\ sess' = [sess EXCEPT !.pc = "registered",
                            !.created = TRUE,
                            !.log = @ \o <<"CreateSession">>]
    /\ OtherFrame

\* CreateSession succeeded: Destroy is deferred, done is made and the
\* handler is registered with session.On.
Call_CreateOk ==
    /\ sess.pc = "creating"
    /\ sess' = [sess EXCEPT !.pc = "registered",
                            !.created = TRUE,
                            !.handler = TRUE,
                            !.log = @ \o <<"CreateSession", "On">>]
    /\ OtherFrame

\* Variant: the send error path returns without destroying the session.
Call_SendFail_NoDestroy ==
    /\ sess.pc = "registered"
    /\ sess' = [sess EXCEPT !.pc = "returned",
                            !.log = @ \o <<"Send">>,
                            !.ret = [Content |-> EmptyText, Error |-> ErrSend]]
    /\ OtherFrame

\* session.Send failed: the call returns the error, the deferred Destroy
\* runs.
Call_SendFail ==
    /\ sess.pc = "registered"
    /\ sess' = [sess EXCEPT !.pc = "returned",
                            !.log = @ \o <<"Send", "Destroy">>,
                            !.ret = [Content |-> EmptyText, Error |-> ErrSend]]
    /\ OtherFrame

\* session.Send succeeded: the call waits in the select.
Call_SendOk ==
    /\ sess.pc = "registered"
    /\ sess' = [sess EXCEPT !.pc = "waiting", !.log = Append(@, "Send")]
    /\ OtherFrame

\* The prompt has reached the gateway.
PromptSent == sess.pc \in {"waiting", "selected"} \/ (sess.pc = "returned" /\ sess.ret.Error = ErrTimeout)

\* The handler of lines 119-128 applied to one event.
Handle(event) ==
    [sess EXCEPT !.events = Append(@, event),
                 !.content = IF event.type = "assistant.message" /\ event.has
                             THEN event.content ELSE @,
                 !.closes = IF event.type = "session.idle" THEN @ + 1 ELSE @]

\* The session delivers an event of the turn the prompt started: messages,
\* then session.idle.  (After a timeout the events can still arrive.)
Call_Event(event) ==
    /\ PromptSent
    /\ sess.closes = 0
    /\ Len(sess.events) + sess.missed < MaxEvents
    /\ sess' = IF sess.handler THEN Handle(event) ELSE [sess EXCEPT !.missed = @ + 1]
    /\ OtherFrame

\* The session delivers session.idle once more while the call has not
\* returned: the handler closes the closed channel, which panics.
Call_IdleAgain ==
    /\ sess.pc \in {"waiting", "selected"}
    /\ sess.handler
    /\ sess.closes > 0
    /\ Len(sess.events) + sess.missed < MaxEvents
    /\ sess' = [Handle(IdleEvent) EXCEPT !.pc = "panicked"]
    /\ OtherFrame

\* The deadline of the call's context passes.
Call_Deadline ==
    /\ sess.pc \in {"creating", "registered", "waiting"}
    /\ ~sess.expired
    /\ sess' = [sess EXCEPT !.expired = TRUE]
    /\ OtherFrame

\* select: case <-done
Call_SelectDone ==
    /\ sess.pc = "waiting"
    /\ sess.closes > 0
    /\ sess' = [sess EXCEPT !.pc = "selected",
                            !.ret = [Content |-> sess.content, Error |-> NoError]]
    /\ OtherFrame

\* select: case <-askCtx.Done()
Call_SelectTimeout ==
    /\ sess.pc = "waiting"
    /\ sess.expired
    /\ sess' = [sess EXCEPT !.pc = "selected",
                            !.ret = [Content |-> EmptyText, Error |-> ErrTimeout]]
    /\ OtherFrame

\* The call returns what the select chose; the deferred Destroy runs.
Call_Return ==
    /\ sess.pc = "selected"
    /\ sess' = [sess EXCEPT !.pc = "returned", !.log = Append(@, "Destroy")]
    /\ OtherFrame

SessionNext ==
    \/ Call_Start
    \/ Call_CreateFail
    \/ Call_CreateOk
    \/ Call_SendFail
    \/ Call_SendOk
    \/ \E event \in MessageEvents \cup {IdleEvent} : Call_Event(event)
    \/ Call_Deadline
    \/ Call_SelectDone
    \/ Call_SelectTimeout
    \/ Call_Return

\* A session that keeps to one session.idle per prompt.
SessionSpec == Init /\ [][SessionNext]_vars

\* A session that may deliver session.idle more than once.
EventNext == SessionNext \/ Call_IdleAgain

EventSpec == Init /\ [][EventNext]_vars

\* ------------------------------------------------------- the command run
\* The function run of the command line: validation, construction of the
\* council, the call of Execute and the report of its Result.  The printed
\* output is the sequence of the Printer calls that write a part of the
\* report; the spinner updates made by the progress callback are in
\* `progress`.
ErrNoModels == <<"at least one model must be specified">>

ErrNewCouncil ==
    <<"failed to create Copilot client", "failed to start Copilot client", "sdk error">>

Printed(kind, value) == [kind |-> kind, value |-> value]

\* The participant lists the command can be given: the flag may be empty.
RunModelLists == ModelLists \cup {<<>>}

\* The --models option is absent from the command line: the variable keeps
\* the default it was registered with.
Run_FlagsDefault ==
    /\ cli.pc = "flags"
    /\ cli' = [cli EXCEPT !.pc = "start"]
    /\ UNCHANGED <<models, pc, now, mu, call, responses, progress, sent, result, reviews,
                   revIdx, reviewStart, reviewCalls, aggCalls, returned, helper, sess, cancelled>>

\* The --models option is given: the variable holds the list given.
Run_FlagsGiven(list) ==
    /\ cli.pc = "flags"
    /\ cli' = [cli EXCEPT !.pc = "start", !.given = TRUE]
    /\ models' = list
    /\ call' = [t \in {Main} \cup (1..Len(list)) |-> IdleCall]
    /\ progress' = [t \in {Main} \cup (1..Len(list)) |-> <<>>]
    /\ sent' = [t \in 1..Len(list) |-> <<>>]
    /\ UNCHANGED <<pc, now, mu, responses, result, reviews, revIdx, reviewStart,
                   reviewCalls, aggCalls, returned, helper, sess, cancelled>>

\* Variant: the participant list is not validated.
Run_Validate_NoCheck(isTerminal) ==
    /\ cli.pc = "start"
    /\ cli' = [cli EXCEPT !.pc = "validated",
                          !.noSpinner = ~isTerminal,
                          !.out = <<Printed("banner", <<>>), Printed("question", Question)>>]
    /\ UNCHANGED <<models, pc, now, mu, call, responses, progress, sent, result, reviews,
                   revIdx, reviewStart, reviewCalls, aggCalls, returned, helper, sess, cancelled>>

\* The Printer is made (spinners are used on a terminal only), the banner
\* and the question are printed, and an empty participant list is rejected.
Run_Validate(isTerminal) ==
    /\ cli.pc = "start"
    /\ IF Len(models) = 0
       THEN cli' = [cli EXCEPT !.pc = "returned",
                               !.noSpinner = ~isTerminal,
                               !.out = <<Printed("banner", <<>>), Printed("question", Question)>>,
                               !.err = ErrNoModels]
       ELSE cli' = [cli EXCEPT !.pc = "validated",
                               !.noSpinner = ~isTerminal,
                               !.out = <<Printed("banner", <<>>), Printed("question", Question)>>]
    /\ UNCHANGED <<models, pc, now, mu, call, responses, progress, sent, result, reviews,
                   revIdx, reviewStart, reviewCalls, aggCalls, returned, helper, sess, cancelled>>

\* NewCouncil fails: the gateway client did not start.
Run_NewCouncilFail ==
    /\ cli.pc = "validated"
    /\ cli' = [cli EXCEPT !.pc = "returned",
                          !.out = Append(@, Printed("error", ErrNewCouncil)),
                          !.err = ErrNewCouncil]
    /\ UNCHANGED <<models, pc, now, mu, call, responses, progress, sent, result, reviews,
                   revIdx, reviewStart, reviewCalls, aggCalls, returned, helper, sess, cancelled>>

\* NewCouncil succeeds: the client is started, the querying phase is
\* announced, a spinner is started per model (kept in the Printer's map
\* unless spinners are off) and Execute is called.
Run_NewCouncilOk ==
    /\ cli.pc = "validated"
    /\ cli' = [cli EXCEPT !.pc = "executing",
                          !.out = Append(@, Printed("querying", models)),
                          !.client = "started",
                          !.spinners = IF cli.noSpinner THEN {}
                                       ELSE {models[i] : i \in 1..Len(models)}]
    /\ UNCHANGED <<models, pc, now, mu, call, responses, progress, sent, result, reviews,
                   revIdx, reviewStart, reviewCalls, aggCalls, returned, helper, sess, cancelled>>

\* The progress callbacks of the Stage-1 goroutines have returned.
CallbacksReturned == cli.noSpinner \/ \A i \in Workers : i \in cli.stopped

\* A step of Execute, called by run; a goroutine calls wg.Done after its
\* progress callback has returned, so AskMultipleModels returns after them.
Run_Execute ==
    /\ cli.pc = "executing"
    /\ Step
    /\ (pc = "Stage1Running" /\ pc' # "Stage1Running") => CallbacksReturned

\* The progress callback of goroutine i, StopModelSpinner, looks its model
\* up in the Printer's map.
Run_StopSpinnerLookup(i) ==
    /\ cli.pc = "executing"
    /\ ~cli.noSpinner
    /\ pc = "Stage1Running"
    /\ call[i].pc = "done"
    /\ i \notin cli.inMap \cup cli.stopped
    /\ cli' = [cli EXCEPT !.inMap = @ \cup {i}]
    /\ UNCHANGED <<models, pc, now, mu, call, responses, progress, sent, result, reviews,
                   revIdx, reviewStart, reviewCalls, aggCalls, returned, helper, sess, cancelled>>

\* StopModelSpinner stops the spinner it found, deletes the entry from the
\* map, prints the line of the model and returns.
Run_StopSpinnerDelete(i) ==
    /\ cli.pc = "executing"
    /\ i \in cli.inMap
    /\ cli' = [cli EXCEPT !.inMap = @ \ {i},
                          !.spinners = @ \ {models[i]},
                          !.stopped = @ \cup {i}]
    /\ UNCHANGED <<models, pc, now, mu, call, responses, progress, sent, result, reviews,
                   revIdx, reviewStart, reviewCalls, aggCalls, returned, helper, sess, cancelled>>

\* Variant: a failed run reports its error only.
Report_ErrorOnly(res) ==
    IF res.Error = NoError
    THEN [i \in 1..Len(res.ModelResponses) |-> Printed("response", res.ModelResponses[i])]
         \o << Printed("aggregation",
                       Cardinality({i \in 1..Len(res.ModelResponses) :
                                       res.ModelResponses[i].Error = NoError})),
               Printed("final", res.AggregatedResponse),
               Printed("summary", res.ModelResponses) >>
    ELSE << Printed("error", res.Error) >>

\* The report run prints for the Result that Execute returned.
Report(res) ==
    [i \in 1..Len(res.ModelResponses) |-> Printed("response", res.ModelResponses[i])]
    \o (IF res.Error = NoError
        THEN << Printed("aggregation",
                        Cardinality({i \in 1..Len(res.ModelResponses) :
                                        res.ModelResponses[i].Error = NoError})),
                Printed("final", res.AggregatedResponse),
                Printed("summary", res.ModelResponses) >>
        ELSE << Printed("error", res.Error) >>)

\* Execute has returned: run prints the report and returns Result.Error;
\* the deferred Close takes the client's mutex and calls Stop.
Run_Report ==
    /\ cli.pc = "executing"
    /\ pc \in Terminal
    /\ mu = {}
    /\ mu' = {Main}
    /\ cli' = [cli EXCEPT !.pc = "closing",
                          !.out = @ \o Report(result),
                          !.err = result.Error]
    /\ UNCHANGED <<models, pc, now, call, responses, progress, sent, result, reviews,
                   revIdx, reviewStart, reviewCalls, aggCalls, returned, helper, sess, cancelled>>

\* Stop returns, Close releases the mutex and run returns.
Run_Close ==
    /\ cli.pc = "closing"
    /\ mu' = {}
    /\ cli' = [cli EXCEPT !.pc = "returned", !.client = "closed"]
    /\ UNCHANGED <<models, pc, now, call, responses, progress, sent, result, reviews,
                   revIdx, reviewStart, reviewCalls, aggCalls, returned, helper, sess, cancelled>>

RunNext ==
    \/ Run_FlagsDefault
    \/ \E list \in RunModelLists : Run_FlagsGiven(list)
    \/ \E isTerminal \in BOOLEAN : Run_Validate(isTerminal)
    \/ Run_NewCouncilFail
    \/ Run_NewCouncilOk
    \/ Run_Execute
    \/ \E i \in Workers : Run_StopSpinnerLookup(i)
    \/ \E i \in Workers : Run_StopSpinnerDelete(i)
    \/ Run_Report
    \/ Run_Close

\* The flags are registered with their defaults (init), none is parsed yet.
RunInit == InitWith({DefaultModels}, [NoRun EXCEPT !.pc = "flags"])

RunSpec == RunInit /\ [][RunNext]_vars

\* ============================================================ properties
\* Vocabulary of the properties, stated on the Result alone.
Joined == pc \notin {"Idle", "Stage1Running"}

HasText(resp) == resp.Error = <<>> /\ resp.Content # <<>>

UsableSlots ==
    {i \in 1..Len(result.ModelResponses) : HasText(result.ModelResponses[i])}

UsableCount == Cardinality(UsableSlots)

AfterReview == pc \in {"Stage3Running", "Done", "Stage3Failed"}

Last(seq) == seq[Len(seq)]

Lines(text) == {text[k] : k \in 1..Len(text)}

\* C1: AskMultipleModels returns one Response per input participant and slot
\* i carries the identifier (and only the answer) of participant i, whatever
\* the order in which the concurrent calls complete; while the calls run, a
\* completed call has filled its own slot and only its own slot.
C1_SlotIdentity ==
    /\ Joined =>
          /\ Len(result.ModelResponses) = Len(models)
          /\ \A i \in 1..Len(models) :
                /\ result.ModelResponses[i].Model = models[i]
                /\ result.ModelResponses[i].Content \in {<<>>, Answer(i)}
    /\ pc = "Stage1Running" =>
          /\ Len(responses) = Len(models)
          /\ \A i \in Workers :
                IF call[i].pc = "done"
                THEN responses[i].Model = models[i]
                ELSE responses[i] = ZeroResponse

C1_Witness ==
    /\ Joined
    /\ Len(models) = 3
    /\ result.ModelResponses[1].Error = ErrTimeout
    /\ result.ModelResponses[2].Error = ErrSend
    /\ HasText(result.ModelResponses[3])
    /\ result.ModelResponses[3].Duration < result.ModelResponses[1].Duration

\* C2: when no Stage-1 response is usable (each has an error or an empty
\* content), Execute ends in AllFailed with Result.Error set, no review, no
\* aggregated text, and neither a review call nor an aggregator call.
C2_AllFailed ==
    (Joined /\ UsableCount = 0) =>
        /\ pc = "AllFailed"
        /\ result.Error = ErrAllFailed
        /\ result.Reviews = <<>>
        /\ result.AggregatedResponse = <<>>
        /\ reviewCalls = <<>>
        /\ aggCalls = <<>>
        /\ returned = <<>>

C2_Witness ==
    /\ pc = "AllFailed"
    /\ Len(models) >= 2
    /\ result.ModelResponses[1].Error = <<>>
    /\ result.ModelResponses[1].Content = <<>>
    /\ result.ModelResponses[2].Error # <<>>

\* C3: with exactly one usable Stage-1 response no review call is made,
\* Reviews stays empty, and the aggregator is still called, once, with a
\* prompt that holds the question, one section per Stage-1 response, the
\* usable answer, and no peer review part.
C3_SingleUsable ==
    (Joined /\ UsableCount = 1) =>
        /\ pc # "AllFailed"
        /\ reviewCalls = <<>>
        /\ result.Reviews = <<>>
        /\ result.ReviewPrompts = EmptyMap
        /\ AfterReview =>
              /\ Len(aggCalls) = 1
              /\ aggCalls[1].Model = Aggregator
              /\ result.AggregationPrompt = aggCalls[1].Prompt
              /\ <<"Original Question: ", Question>> \in Lines(aggCalls[1].Prompt)
              /\ <<"## Peer Review Results:">> \notin Lines(aggCalls[1].Prompt)
              /\ \A i \in 1..Len(models) :
                    /\ <<"### Response ">> \o Itoa(i) \o <<" - ", models[i], ":">>
                          \in Lines(aggCalls[1].Prompt)
                    /\ i \in UsableSlots =>
                          Lines(result.ModelResponses[i].Content) \subseteq Lines(aggCalls[1].Prompt)
                    /\ result.ModelResponses[i].Error # <<>> =>
                          <<"(Error: ">> \o result.ModelResponses[i].Error \o <<")">>
                              \in Lines(aggCalls[1].Prompt)

C3_Witness ==
    /\ pc = "Done"
    /\ Len(models) = 3
    /\ UsableSlots = {2}
    /\ result.AggregatedResponse = SynthesizedText

\* C4: Execute moves only along Idle -> Stage1Running -> (AllFailed |
\* Stage2Running) -> Stage3Running -> (Done | Stage3Failed); no review call
\* starts before every Stage-1 call has completed, the aggregator call starts
\* only after the review loop is over, nothing happens after AllFailed, Done
\* or Stage3Failed, and in every other state the program can take a step.
StageTransitions ==
    {<<"Idle", "Stage1Running">>, <<"Stage1Running", "AllFailed">>,
     <<"Stage1Running", "Stage2Running">>, <<"Stage2Running", "Stage3Running">>,
     <<"Stage3Running", "Done">>, <<"Stage3Running", "Stage3Failed">>}

StageOrderInv ==
    /\ pc \in {"Idle", "Stage1Running"} => reviewCalls = <<>> /\ call[Main].pc = "idle"
    /\ pc \in {"Idle", "Stage1Running", "Stage2Running", "AllFailed"} => aggCalls = <<>>
    /\ Joined => \A i \in Workers : call[i].pc = "done" /\ responses[i] # ZeroResponse
    /\ reviewCalls # <<>> => ~(\E i \in Workers : call[i].pc # "done")
    /\ aggCalls # <<>> =>
          /\ Len(aggCalls) = 1
          /\ Len(returned) >= Len(reviewCalls)
          /\ UsableCount >= 2 => Len(reviewCalls) = UsableCount
    /\ pc \in Terminal => call[Main].pc = "idle"
    /\ pc \notin Terminal => ENABLED Step

C4_StageOrder ==
    /\ []StageOrderInv
    /\ [][pc' = pc \/ <<pc, pc'>> \in StageTransitions]_vars
    /\ [][pc \notin Terminal]_vars

C4_Witness ==
    /\ pc = "Done"
    /\ Len(reviewCalls) = 3
    /\ Len(returned) = 4

\* C5: when the aggregator call fails (session creation, send, or timeout),
\* Execute ends in Stage3Failed with Result.Error set and no aggregated
\* text, and the Stage-1 responses and the reviews collected before the call
\* are in the Result unchanged; Done is reached only by a call that did not
\* fail.
C5_Inv ==
    /\ pc = "Stage3Failed" =>
          /\ result.Error = <<"aggregation failed">> \o Last(returned).Error
          /\ result.AggregatedResponse = <<>>
          /\ result.ModelResponses = responses
          /\ result.Reviews = reviews
    /\ pc \in {"Done", "Stage3Failed"} =>
          (Last(returned).Error # <<>> <=> pc = "Stage3Failed")

C5_AggregationFailure ==
    /\ []C5_Inv
    /\ [][pc = "Stage3Running" =>
             /\ result'.ModelResponses = result.ModelResponses
             /\ result'.Reviews = result.Reviews]_vars

C5_Witness ==
    /\ pc = "Stage3Failed"
    /\ Len(result.Reviews) = 2
    /\ Len(result.ModelResponses) = 3
    /\ Last(returned).Error = ErrTimeout

\* C6: a failed review call never aborts the pipeline: with at least two
\* usable Stage-1 responses the aggregator is called whatever the number of
\* failed reviews, there is one Review per review call, and a Review carries
\* an error exactly when its call failed (so 3 usable participants and one
\* review timeout give 3 responses and 3 reviews, one of them failed).
FailedReviews == {k \in 1..Len(result.Reviews) : result.Reviews[k].Error # <<>>}

C6_ReviewFailureAbsorbed ==
    /\ pc = "Stage2Running" => result.Error = <<>>
    /\ (Joined /\ UsableCount >= 2) => pc # "AllFailed"
    /\ (AfterReview /\ UsableCount >= 2) =>
          /\ Len(aggCalls) = 1
          /\ Len(result.ModelResponses) = Len(models)
          /\ Len(reviewCalls) = UsableCount
          /\ Len(result.Reviews) = UsableCount
          /\ \A k \in 1..UsableCount : result.Reviews[k].Error = returned[k].Error

C6_Witness ==
    /\ pc = "Done"
    /\ UsableCount = 3
    /\ Len(result.Reviews) = 3
    /\ Cardinality(FailedReviews) = 1
    /\ \A k \in FailedReviews : result.Reviews[k].Error = ErrTimeout
    /\ result.AggregatedResponse # <<>>

\* C7: at the end of Execute Result.Error is set exactly when no Stage-1
\* response was usable or the aggregator call failed; before the end it is
\* not set, whatever Stage-1 calls or review calls failed and whatever
\* reviews could not be parsed.
AggregatorFailed ==
    /\ Len(aggCalls) = 1
    /\ Len(returned) = Len(reviewCalls) + 1
    /\ Last(returned).Error # <<>>

C7_ErrorIff ==
    /\ pc \in Terminal => (result.Error # <<>> <=> (UsableCount = 0 \/ AggregatorFailed))
    /\ pc \notin Terminal => result.Error = <<>>

C7_Witness ==
    /\ pc = "Done"
    /\ result.Error = <<>>
    /\ \E i \in 1..Len(models) : result.ModelResponses[i].Error # <<>>
    /\ \E k \in 1..Len(result.Reviews) : result.Reviews[k].Error # <<>>
    /\ \E k \in 1..Len(result.Reviews) :
          /\ result.Reviews[k].Error = <<>>
          /\ result.Reviews[k].Rankings = <<>>
          /\ returned[k].Content = UnparseableReview

\* C8: when the aggregator call succeeds, Execute ends in Done with no
\* error and AggregatedResponse is the text the aggregator returned, which
\* is not empty.
AggregatorSucceeded ==
    /\ Len(aggCalls) = 1
    /\ Len(returned) = Len(reviewCalls) + 1
    /\ Last(returned).Error = <<>>

C8_DoneHasText ==
    AggregatorSucceeded =>
        /\ pc = "Done"
        /\ result.Error = <<>>
        /\ result.AggregatedResponse = Last(returned).Content
        /\ result.AggregatedResponse # <<>>

\* C9: every Review's reviewer is a participant with a usable Stage-1
\* response, and with at least two usable participants the reviews are those
\* participants, one each, in Stage-1 order.
RECURSIVE UsableModelsFrom(_)
UsableModelsFrom(i) ==
    IF i > Len(result.ModelResponses) THEN <<>>
    ELSE (IF i \in UsableSlots THEN <<result.ModelResponses[i].Model>> ELSE <<>>)
         \o UsableModelsFrom(i + 1)

Reviewers == [k \in 1..Len(result.Reviews) |-> result.Reviews[k].ReviewerModel]

C9_ReviewersUsable ==
    /\ \A k \in 1..Len(result.Reviews) :
          \E i \in UsableSlots : models[i] = result.Reviews[k].ReviewerModel
    /\ (AfterReview /\ UsableCount >= 2) => Reviewers = UsableModelsFrom(1)

C9_Witness ==
    /\ pc \in Terminal
    /\ Len(models) = 3
    /\ UsableSlots = {1, 3}
    /\ Reviewers = <<models[1], models[3]>>

\* C10 as stated: with fewer than two usable Stage-1 responses Reviews is
\* empty and ReviewDuration is zero.
C10_SkippedZeroDuration ==
    (Joined /\ UsableCount < 2) =>
        /\ result.Reviews = <<>>
        /\ result.ReviewDuration = 0

\* C10, amended: with fewer than two usable Stage-1 responses no review call
\* is made and Reviews is empty; ReviewDuration is zero when no response was
\* usable, and otherwise it is the time that passed between reviewStart and
\* the return of conductPeerReview, which is not always zero.
C10_SkippedNoReview ==
    (Joined /\ UsableCount < 2) =>
        /\ result.Reviews = <<>>
        /\ reviewCalls = <<>>
        /\ UsableCount = 0 => result.ReviewDuration = 0
        /\ result.ReviewDuration >= 0
        /\ result.ReviewDuration <= now - reviewStart

C10_Witness ==
    /\ pc = "Done"
    /\ UsableCount = 1
    /\ result.ReviewDuration = 1
    /\ result.Reviews = <<>>

\* The single calls (review or aggregator) issued and not yet returned.
InFlight == Len(reviewCalls) + Len(aggCalls) - Len(returned)

\* C11 as stated: the review calls of Stage 2 run in parallel, so while one
\* review call is in flight and a usable participant has not been asked for
\* its review yet, that participant's review call can start.
C11_ReviewsInParallel ==
    (pc = "Stage2Running" /\ InFlight = 1 /\ Len(reviewCalls) < UsableCount)
        => ENABLED ReviewCall

\* C11, amended: the review calls of Stage 2 run one after the other, in
\* Stage-1 order of the usable participants: at most one single call is in
\* flight at any time, and a review call is issued only when every earlier
\* review call has returned.
C11_Inv ==
    /\ InFlight \in {0, 1}
    /\ InFlight = 1 <=> call[Main].pc # "idle"
    /\ \A k \in 1..Len(reviewCalls) : reviewCalls[k].Model = UsableModelsFrom(1)[k]

C11_ReviewsSequential ==
    /\ []C11_Inv
    /\ [][reviewCalls' # reviewCalls =>
             /\ Len(returned) = Len(reviewCalls)
             /\ Len(reviewCalls') = Len(reviewCalls) + 1]_vars

C11_Witness ==
    /\ pc = "Stage2Running"
    /\ UsableCount = 3
    /\ Len(reviewCalls) = 2
    /\ Len(returned) = 1
    /\ call[Main].pc = "wait"

\* C12: in the Stage-1 fan-out no call blocks another: whatever the other
\* participants' calls are doing (creating a session, sending, waiting), a
\* call that has started and has not completed can take its next step.
C12_NoCrossBlocking ==
    \A i \in Workers : call[i].pc \notin {"idle", "done"} => ENABLED CallStep(i)

\* C13: a call whose session never becomes idle ends, by its deadline, with
\* a Response that carries the timeout failure and no text; a transport
\* error ends the same way, as a failure stored in the slot; and once every
\* call is waiting for output or has completed, AskMultipleModels returns.
C13_TimeoutIsFailure ==
    \A i \in Workers :
        (call[i].pc = "wait" /\ ~call[i].done /\ call'[i].pc = "done") =>
            /\ responses'[i].Error = ErrTimeout
            /\ responses'[i].Content = <<>>
            /\ responses'[i].Model = models[i]

C13_FailureIsValue ==
    \A i \in Workers :
        call[i].pc = "done" =>
            /\ responses[i].Error \in {<<>>, ErrTimeout, ErrSend, ErrCreateSession(models[i])}
            /\ Len(progress[i]) = 1

C13_TimeoutTerminates ==
    /\ [][C13_TimeoutIsFailure]_vars
    /\ []C13_FailureIsValue
    /\ (pc = "Stage1Running" /\ \A i \in Workers : call[i].pc \in {"wait", "done"})
          ~> Joined

C13_Witness ==
    /\ Joined
    /\ Len(models) = 3
    /\ result.ModelResponses[1].Error = ErrTimeout
    /\ ~call[1].done
    /\ call[1].content = <<>>
    /\ result.ModelResponses[2].Error = ErrSend
    /\ HasText(result.ModelResponses[3])

\* C14: a Response of AskMultipleModels and a return of AskSingleModel that
\* carries a failure carries no text, whatever the failing step was (session
\* creation, send, deadline), also when the handler had received an
\* assistant message before the deadline case was taken.
C14_FailureHasNoText ==
    /\ \A i \in 1..Len(responses) :
          responses[i].Error # <<>> => responses[i].Content = <<>>
    /\ \A i \in 1..Len(result.ModelResponses) :
          result.ModelResponses[i].Error # <<>> => result.ModelResponses[i].Content = <<>>
    /\ \A k \in 1..Len(returned) :
          returned[k].Error # <<>> => returned[k].Content = <<>>

C14_Witness ==
    /\ Joined
    /\ Len(models) = 3
    /\ call[1].content = Answer(1)
    /\ result.ModelResponses[1].Error = ErrTimeout
    /\ result.ModelResponses[1].Content = <<>>
    /\ result.ModelResponses[2].Error = ErrSend
    /\ result.ModelResponses[3].Error = ErrCreateSession(models[3])

\* C15: during AskMultipleModels the slot of a call is written by that call
\* alone, in the step in which the call completes and in no other step: a
\* step changes at most one slot, the slot of a call that has not completed
\* holds the zero Response, and the slot of a completed call never changes
\* again, whatever session events arrive after the call timed out.
C15_OwnSlotOnce ==
    pc # "Idle" =>
        \A i \in Workers :
            /\ responses'[i] # responses[i] =>
                  /\ call[i].pc # "done"
                  /\ \A j \in Workers \ {i} : responses'[j] = responses[j]
            /\ (call[i].pc # "done" /\ call'[i].pc = "done") <=> responses'[i] # responses[i]

C15_SlotState ==
    pc # "Idle" =>
        /\ Len(responses) = Len(models)
        /\ \A i \in Workers :
              IF call[i].pc = "done"
              THEN responses[i].Model = models[i] /\ Len(sent[i]) <= 1
              ELSE responses[i] = ZeroResponse

C15_SlotWrittenOnce ==
    /\ [][C15_OwnSlotOnce]_vars
    /\ []C15_SlotState

C15_Witness ==
    /\ pc = "Stage1Running"
    /\ Len(models) = 3
    /\ call[1].pc = "done"
    /\ responses[1].Error = ErrTimeout
    /\ responses[1].Content = <<>>
    /\ call[1].content = Answer(1)
    /\ call[1].done
    /\ call[2].pc = "wait"
    /\ responses[2] = ZeroResponse
    /\ HasText(responses[3])

\* The review calls that have returned.
ReviewsReturned == IF Len(returned) < Len(reviewCalls) THEN Len(returned) ELSE Len(reviewCalls)

\* C16 as stated: the progress callback is invoked once per completed call
\* of each of the three stages, the aggregator call included: the number of
\* invocations made by Execute's own goroutine is the number of single calls
\* (review and aggregator) that have returned.
C16_ProgressEveryCall ==
    /\ Len(progress[Main]) = Len(returned)
    /\ \A i \in Workers : Len(progress[i]) = IF call[i].pc = "done" THEN 1 ELSE 0

\* C16, amended: the progress callback is invoked once per completed Stage-1
\* call, with the participant, the Duration of its Response and a failure
\* exactly when the Response has one, and once per returned review call, with
\* the reviewer followed by " (review)", the duration and the error of the
\* call; it is not invoked for the aggregator call.
C16_ProgressPerCall ==
    /\ \A i \in Workers :
          IF call[i].pc = "done"
          THEN /\ Len(progress[i]) = 1
               /\ progress[i][1].Model = models[i]
               /\ progress[i][1].Duration = responses[i].Duration
               /\ progress[i][1].Error # <<>> <=> responses[i].Error # <<>>
          ELSE progress[i] = <<>>
    /\ Len(progress[Main]) = ReviewsReturned
    /\ \A k \in 1..Len(progress[Main]) :
          /\ progress[Main][k].Model = <<reviewCalls[k].Model, " (review)">>
          /\ progress[Main][k].Error = returned[k].Error
          /\ k <= Len(reviews) => progress[Main][k].Duration = reviews[k].Duration
    /\ \A t \in Threads : \A k \in 1..Len(progress[t]) : progress[t][k].Model # Aggregator

C16_Witness ==
    /\ pc = "Done"
    /\ Len(models) = 3
    /\ progress[1][1].Error = <<>>
    /\ progress[2][1].Error = ErrSendRaw
    /\ Len(progress[Main]) = 2
    /\ progress[Main][2].Error = ErrTimeout
    /\ Len(returned) = 3

\* The slot of the k-th usable Stage-1 response, the slots of the other
\* usable responses, and the label position of one of them among the others.
KthUsable(k) == CHOOSE i \in UsableSlots : Cardinality({j \in UsableSlots : j < i}) = k - 1

OthersOf(k) == UsableSlots \ {KthUsable(k)}

LabelPosition(k, i) == Cardinality({j \in OthersOf(k) : j < i}) + 1

LabelHeader(r) == <<"## ", "Response ", Labels[r], ":">>

\* The lines of a prompt that are label headers, and where header r is.
HeaderLines(prompt) == {p \in 1..Len(prompt) : Len(prompt[p]) = 4 /\ prompt[p][1] = "## "}

HeaderAt(prompt, r) == CHOOSE p \in 1..Len(prompt) : prompt[p] = LabelHeader(r)

\* C18: the review prompt of each reviewer holds no line of the reviewer's
\* own answer, and holds every other usable answer (as far as there are
\* labels) under the labels A, B, C, ... given in Stage-1 order: one header
\* per other answer, the headers in label order, each followed by the text
\* of the answer it stands for; so with usable slots 1, 2, 3 the second
\* reviewer sees A = answer of slot 1 and B = answer of slot 3, whatever the
\* order in which the Stage-1 calls completed.  Stated of every review call
\* at the step that issues it; issued calls never change.
C18_PromptOf(k) ==
    LET prompt == reviewCalls[k].Prompt
        own == result.ModelResponses[KthUsable(k)].Content
        shown == {i \in OthersOf(k) : LabelPosition(k, i) <= Len(Labels)}
    IN /\ reviewCalls[k].Model = result.ModelResponses[KthUsable(k)].Model
       /\ \A l \in 1..Len(own) : own[l] \notin Lines(prompt)
       /\ Cardinality(HeaderLines(prompt)) = Cardinality(shown)
       /\ \A i \in shown :
             LET r == LabelPosition(k, i)
                 text == result.ModelResponses[i].Content
             IN /\ LabelHeader(r) \in Lines(prompt)
                /\ SubSeq(prompt, HeaderAt(prompt, r) + 1, HeaderAt(prompt, r) + Len(text)) = text
                /\ \A j \in shown : j < i =>
                      HeaderAt(prompt, LabelPosition(k, j)) < HeaderAt(prompt, r)

C18_IssuedPrompt ==
    reviewCalls' # reviewCalls =>
        /\ reviewCalls' = Append(reviewCalls, Last(reviewCalls'))
        /\ C18_PromptOf(Len(reviewCalls))'

C18_ResponsesFrozen ==
    pc \in {"Stage2Running", "Stage3Running"} =>
        /\ result'.ModelResponses = result.ModelResponses
        /\ Len(reviewCalls') >= Len(reviewCalls)

C18_AnonymizedOrder ==
    /\ [][C18_IssuedPrompt]_vars
    /\ [][C18_ResponsesFrozen]_vars

C18_Witness ==
    /\ UsableSlots = {1, 2, 3}
    /\ result.ModelResponses[3].Duration < result.ModelResponses[1].Duration
    /\ Len(reviewCalls) >= 2
    /\ LET prompt == reviewCalls[2].Prompt
       IN /\ prompt[HeaderAt(prompt, 1) + 1] = <<AnswerPool[1]>>
          /\ prompt[HeaderAt(prompt, 2) + 1] = <<AnswerPool[3]>>
          /\ <<AnswerPool[2]>> \notin Lines(prompt)

\* The identifiers a participant can have.
ModelIds == {ModelPool[m] : m \in 1..Len(ModelPool)}

\* C19: the review prompt carries no identity: the prompt built for the same
\* question and the same other answers in the same order is the same text
\* when the answers were written by other models, in other times, and the
\* reviewer's own answer is another one; and no model identifier occurs in it.
C19_NoIdentity ==
    helper.op = "review" =>
        /\ helper.prompt = helper.twinPrompt
        /\ \A p \in 1..Len(helper.prompt) : \A t \in 1..Len(helper.prompt[p]) :
              helper.prompt[p][t] \notin ModelIds

C19_Witness ==
    /\ helper.op = "review"
    /\ Len(helper.successful) = 3
    /\ helper.reviewer = 2
    /\ \A j \in 1..3 : helper.successful[j].Model # helper.twin[j].Model
    /\ helper.successful[2].Content # helper.twin[2].Content
    /\ helper.prompt[HeaderAt(helper.prompt, 1) + 1] = PoolAnswer(1)[1]
    /\ helper.prompt[HeaderAt(helper.prompt, 2) + 1] = PoolAnswer(3)[1]

\* The number of labels (A..H).
AlphabetSize == 8

\* Position of response j among the responses reviewer i is shown.
PositionFor(i, j) == IF j < i THEN j ELSE j - 1

\* C20: when a reviewer has more than eight other answers to review, the
\* prompt holds eight headers and the first eight other answers, no line of
\* a later answer, and ends with the closing instruction as always; the
\* rankings parsed from the review name only indices 0..7 (and only indices
\* of answers that exist), with ranks 1, 2, ... in order, also when the
\* review ranks a "Response I" or "Response J".
C20_BeyondAlphabet ==
    helper.op = "review" =>
        LET n == Len(helper.successful)
            i == helper.reviewer
        IN /\ n - 1 > AlphabetSize =>
                 /\ Cardinality(HeaderLines(helper.prompt)) = AlphabetSize
                 /\ \A j \in (1..n) \ {i} :
                       IF PositionFor(i, j) <= AlphabetSize
                       THEN Lines(helper.successful[j].Content) \subseteq Lines(helper.prompt)
                       ELSE Lines(helper.successful[j].Content) \cap Lines(helper.prompt) = {}
                 /\ Last(helper.prompt) =
                       <<"Be objective and focus on the quality of the content, not stylistic preferences.">>
           /\ \A k \in 1..Len(helper.rankings) :
                 /\ helper.rankings[k].ResponseIndex \in 0..(AlphabetSize - 1)
                 /\ helper.rankings[k].ResponseIndex < n - 1
                 /\ helper.rankings[k].Rank = k

C20_Witness ==
    /\ helper.op = "review"
    /\ Len(helper.successful) = 10
    /\ helper.reviewer = 1
    /\ PoolAnswer(9)[1] \in Lines(helper.prompt)
    /\ PoolAnswer(10)[1] \notin Lines(helper.prompt)
    /\ helper.reviewContent = BeyondReview
    /\ Len(helper.rankings) = 2
    /\ helper.rankings[1].ResponseIndex = 7
    /\ helper.rankings[2].ResponseIndex = 0

\* ------------------------------------------------------------------ C21
\* The rankings parseRankings returned for a review text.
Parsed == helper.op = "parse"

\* C21: in the sequence parseRankings returns for a review text no two
\* rankings have the same ResponseIndex, i.e. a label is claimed at most
\* once per review.
C21_LabelOnce ==
    Parsed =>
        \A k1, k2 \in 1..Len(helper.rankings) :
            k1 # k2 => helper.rankings[k1].ResponseIndex # helper.rankings[k2].ResponseIndex

\* ------------------------------------------------------------------ C22
\* The label a review line names first, and its number (A = 1, B = 2, ...).
RankedLabel(line) ==
    LET p == CHOOSE p \in 1..Len(line) :
                 line[p] = "Response " /\ \A q \in 1..(p - 1) : line[q] # "Response "
    IN line[p + 1]

LabelNumber(label) == CHOOSE x \in 1..AlphabetSize : LabelHeader(x)[3] = label

\* The response reviewer i was shown at position p of its view, as an index
\* of the list the reviewers are taken from (Stage-1 order; in a run where
\* every participant answered this is the Stage-1 slot).
ShownUnder(i, p) == IF p < i THEN p ELSE p + 1

\* C22: the ResponseIndex of each stored ranking is the
\* (0-based) index, in Stage-1 order, of the participant whose answer the
\* reviewer was shown under the ranked label.
C22_StageOneIndex ==
    helper.op = "review" =>
        \A k \in 1..Len(helper.rankings) :
            LET r == helper.rankings[k]
            IN r.ResponseIndex =
                   ShownUnder(helper.reviewer, LabelNumber(RankedLabel(r.Reasoning))) - 1

\* ------------------------------------------------------------------ C23
\* Token b directly follows token a somewhere in the line.
HasPair(line, a, b) == \E p \in 1..(Len(line) - 1) : line[p] = a /\ line[p + 1] = b

\* The line names a label that is eligible among n responses.
NamesEligible(line, n) ==
    \E x \in 1..AlphabetSize : x <= n /\ HasPair(line, "Response ", LabelHeader(x)[3])

\* The line carries the marker of the first rank, "1." or "1:".
CarriesFirst(line) == HasPair(line, "1", ".") \/ HasPair(line, "1", ":")

\* Some line of the text is a candidate for the first rank.
HasCandidate(text, n) ==
    \E l \in 1..Len(text) : NamesEligible(text[l], n) /\ CarriesFirst(text[l])

\* C23: parseRankings returns a sequence for every review text and every
\* number of eligible responses (the empty text, zero responses and more
\* responses than labels included), never longer than the text has lines,
\* and it returns the empty sequence exactly when no line holds both an
\* eligible "Response <label>" and the marker of the rank sought first.
C23_NeverFails ==
    Parsed =>
        /\ helper.rankings \in Seq([ResponseIndex : 0..(AlphabetSize - 1),
                                    Rank : 1..(MaxLines + 1),
                                    Reasoning : Seq(STRING)])
        /\ Len(helper.rankings) <= Len(helper.reviewContent)
        /\ (helper.rankings = <<>>) <=> ~HasCandidate(helper.reviewContent, helper.numResponses)

C23_Witness ==
    /\ Parsed
    /\ helper.reviewContent = UnparseableReview
    /\ helper.numResponses = 3
    /\ helper.rankings = <<>>

\* ------------------------------------------------------------------ C24
\* The line is "<k>. Response <label>: <reasoning>" for an eligible label.
FollowsFormat(line, k, n) ==
    /\ Len(line) = 8
    /\ line[1] = Digits[k + 1] /\ line[2] = "." /\ line[3] = " "
    /\ line[4] = "Response " /\ line[6] = ":" /\ line[7] = " "
    /\ \E x \in 1..AlphabetSize : x <= n /\ line[5] = LabelHeader(x)[3]

\* The text without its optional "Ranking:" heading.
RankedBody(text) ==
    IF text # <<>> /\ text[1] = <<"Ranking", ":">> THEN SubSeq(text, 2, Len(text)) ELSE text

\* The text follows the requested format for n eligible responses: line k
\* of the body ranks one eligible label at rank k, no label twice.
WellFormatted(text, n) ==
    LET body == RankedBody(text)
    IN /\ body # <<>>
       /\ \A k \in 1..Len(body) : FollowsFormat(body[k], k, n)
       /\ \A k1, k2 \in 1..Len(body) : k1 # k2 => body[k1][5] # body[k2][5]

\* C24: for a review text in the requested format, each eligible label on
\* a line of its own in rank order, parseRankings returns one ranking per
\* line in text order, with the label named on that line, the ranks 1, 2,
\* ... and the line as reasoning.
C24_Formatted ==
    Parsed /\ WellFormatted(helper.reviewContent, helper.numResponses) =>
        LET body == RankedBody(helper.reviewContent)
        IN helper.rankings =
               [k \in 1..Len(body) |->
                   [ResponseIndex |-> LabelNumber(body[k][5]) - 1,
                    Rank |-> k,
                    Reasoning |-> body[k]]]

C24_Witness ==
    /\ Parsed
    /\ helper.reviewContent = FormattedReview
    /\ helper.numResponses = 2
    /\ WellFormatted(helper.reviewContent, helper.numResponses)
    /\ Len(helper.rankings) = 2
    /\ RankedLabel(helper.rankings[1].Reasoning) = "B" /\ helper.rankings[1].Rank = 1
    /\ helper.rankings[1].ResponseIndex = 1
    /\ RankedLabel(helper.rankings[2].Reasoning) = "A" /\ helper.rankings[2].Rank = 2
    /\ helper.rankings[2].ResponseIndex = 0

\* ------------------------------------------------------------------ C25
DigitTokens == {Digits[d] : d \in 1..Len(Digits)}

DigitValue(token) == CHOOSE d \in 0..9 : Digits[d + 1] = token

\* The number a line starts with (0 when it starts with none): the rank
\* marker of a line that carries its marker in front.
RECURSIVE LeadingNumber(_, _)
LeadingNumber(line, acc) ==
    IF line # <<>> /\ Head(line) \in DigitTokens
    THEN LeadingNumber(Tail(line), 10 * acc + DigitValue(Head(line)))
    ELSE acc

\* C25: the ranks of the rankings parseRankings returns are 1, 2, ..., k in
\* order of appearance, and no ranking was committed by a line whose only
\* rank marker is later than the rank that was sought when it was read.
C25_RanksInOrder ==
    Parsed =>
        \A k \in 1..Len(helper.rankings) :
            /\ helper.rankings[k].Rank = k
            /\ ~(LeadingNumber(helper.rankings[k].Reasoning, 0) > k)

\* ------------------------------------------------------------------ C27
Aggregated == helper.op = "aggregate"

\* The lines of a prompt that open the section of a response, that open
\* the block of a reviewer, and that hold one rank assertion.
SectionIdx(prompt) ==
    {p \in 1..Len(prompt) : prompt[p] # <<>> /\ prompt[p][1] = "### Response "}

HeadingIdx(prompt) ==
    {p \in 1..Len(prompt) : prompt[p] # <<>> /\ prompt[p][1] = "**"}

AssertionIdx(prompt) ==
    {p \in 1..Len(prompt) : prompt[p] # <<>> /\ prompt[p][1] = "- "}

\* The k-th smallest member of a set of line numbers.
NthOf(S, k) == CHOOSE p \in S : Cardinality({q \in S : q < p}) = k - 1

\* The reviews that succeeded and yielded at least one rank assertion.
Contributing(revs) ==
    {k \in 1..Len(revs) : revs[k].Error = NoError /\ revs[k].Rankings # <<>>}

\* C27: the Stage-3 prompt holds the original question; one section per
\* Stage-1 response, in participant order, headed by the response's number
\* and model and holding the error marker if the response failed and its
\* text otherwise; and, after the sections, one block per review that
\* succeeded with at least one rank assertion, in reviewer order, headed by
\* the reviewer and holding that review's assertions in order.  There is
\* no other section, block or assertion line, so a review that failed or
\* yielded no assertion contributes nothing.
C27_AggregationPrompt ==
    Aggregated =>
        LET prompt == helper.prompt
            rs == helper.responses
            vs == helper.reviews
            sections == SectionIdx(prompt)
            headings == HeadingIdx(prompt)
        IN /\ <<"Original Question: ", helper.question>> \in Lines(prompt)
           /\ Cardinality(sections) = Len(rs)
           /\ \A j \in 1..Len(rs) :
                 LET p == NthOf(sections, j)
                 IN /\ prompt[p] = <<"### Response ">> \o Itoa(j) \o <<" - ", rs[j].Model, ":">>
                    /\ IF rs[j].Error # NoError
                       THEN /\ prompt[p + 1] = <<"(Error: ">> \o rs[j].Error \o <<")">>
                            /\ prompt[p + 2] = <<>>
                            /\ p + 3 \notin AssertionIdx(prompt)
                       ELSE /\ SubSeq(prompt, p + 1, p + Len(rs[j].Content)) = rs[j].Content
                            /\ prompt[p + Len(rs[j].Content) + 1] = <<>>
           /\ Cardinality(headings) = Cardinality(Contributing(vs))
           /\ \A c \in 1..Cardinality(headings) :
                 LET p == NthOf(headings, c)
                     v == vs[NthOf(Contributing(vs), c)]
                 IN /\ \A q \in sections : q < p
                    /\ prompt[p] = <<"**", v.ReviewerModel, "'s Review:**">>
                    /\ \A r \in 1..Len(v.Rankings) :
                          prompt[p + r] = <<"- ">> \o v.Rankings[r].Reasoning
                    /\ prompt[p + Len(v.Rankings) + 1] = <<>>
           /\ Cardinality(AssertionIdx(prompt)) =
                 Cardinality({kr \in (1..Len(vs)) \X (1..2) :
                                 kr[1] \in Contributing(vs) /\ kr[2] <= Len(vs[kr[1]].Rankings)})

C27_Witness ==
    /\ Aggregated
    /\ Len(helper.responses) = 4
    /\ helper.responses[2].Error = ErrTimeout
    /\ <<"(Error: ">> \o ErrTimeout \o <<")">> \in Lines(helper.prompt)
    /\ Len(helper.reviews) = 3
    /\ Len(helper.reviews[1].Rankings) = 2
    /\ helper.reviews[2].Error = ErrTimeout
    /\ helper.reviews[3].Error = NoError /\ helper.reviews[3].Rankings = <<>>
    /\ Cardinality(HeadingIdx(helper.prompt)) = 1
    /\ Cardinality(AssertionIdx(helper.prompt)) = 2

\* ------------------------------------------------------------------ C28
\* C28: in Stage 1 the question passes through verbatim: whatever a
\* participant's session has been sent is the submitted question and
\* nothing else, every participant whose call got as far as sending (it is
\* sending or waiting, or it ended with an answer, a send error or a
\* timeout) has been sent it exactly once, and Result.InitialPrompt is the
\* question.
C28_Verbatim ==
    pc # "Idle" =>
        /\ result.InitialPrompt = Question
        /\ \A i \in Workers :
              /\ sent[i] \in {<<>>, <<Question>>}
              /\ call[i].pc \in {"send", "wait"} => sent[i] = <<Question>>
              /\ (call[i].pc = "done"
                    /\ (HasText(responses[i]) \/ responses[i].Error \in {ErrSend, ErrTimeout}))
                 => sent[i] = <<Question>>

C28_Witness ==
    /\ pc = "Done"
    /\ Len(models) = 2
    /\ result.InitialPrompt = Question
    /\ \A i \in Workers : sent[i] = <<Question>>
    /\ HasText(result.ModelResponses[1])
    /\ result.ModelResponses[2].Error = ErrTimeout

\* ------------------------------------------------------------------ C29
\* C29: when the command is run with an empty participant list, run
\* returns the error "at least one model must be specified" as the next
\* thing it does after the banner, no council is constructed (the gateway
\* client is never started), Execute never starts and no model call is
\* issued.
C29_EmptyListRejected ==
    Len(models) = 0 =>
        /\ cli.pc \in {"start", "returned"}
        /\ cli.pc = "returned" => cli.err = ErrNoModels /\ cli.err # NoError
        /\ cli.client = "none"
        /\ pc = "Idle"
        /\ call[Main].pc = "idle"
        /\ reviewCalls = <<>> /\ aggCalls = <<>> /\ returned = <<>>
        /\ \A k \in 1..Len(cli.out) : cli.out[k].kind \in {"banner", "question"}

C29_Witness ==
    /\ Len(models) = 0
    /\ cli.pc = "returned"
    /\ cli.err = ErrNoModels
    /\ cli.client = "none"

\* ------------------------------------------------------------------ C30
\* The positions of the printed output that hold a part of the given kind.
PrintedAt(kind) == {k \in 1..Len(cli.out) : cli.out[k].kind = kind}

C31_DefaultModels ==
    (cli.pc = "flags" \/ ~cli.given) =>
        /\ models = <<"claude-sonnet-4.5", "gpt-5.2", "gemini-3-pro-preview">>
        /\ Len(models) > 0
        /\ pc \in Terminal =>
              /\ Len(result.ModelResponses) = 3
              /\ result.ModelResponses[1].Model = "claude-sonnet-4.5"
              /\ result.ModelResponses[2].Model = "gpt-5.2"
              /\ result.ModelResponses[3].Model = "gemini-3-pro-preview"

C31_Witness ==
    /\ ~cli.given
    /\ cli.pc = "returned"
    /\ pc = "Done"
    /\ Len(result.ModelResponses) = 3
    /\ result.ModelResponses[2].Model = "gpt-5.2"

\* ------------------------------------------------------------------ C32
\* C32: the default aggregator is the non-empty identifier gpt-4.1: every
\* Stage-3 call of a run of the command (which leaves the --aggregator
\* option at its default) is made to gpt-4.1.
C32_DefaultAggregator ==
    /\ Aggregator = "gpt-4.1"
    /\ Aggregator # ""
    /\ \A k \in 1..Len(aggCalls) : aggCalls[k].Model = "gpt-4.1"

C32_Witness ==
    /\ cli.pc = "returned"
    /\ pc = "Done"
    /\ Len(aggCalls) = 1
    /\ aggCalls[1].Model = "gpt-4.1"

\* ------------------------------------------------------------------ C39
\* C39: after Execute, Result.ReviewPrompts holds exactly one prompt per
\* Review of Result.Reviews, and the prompt stored for the reviewer of each
\* Review is the prompt that was sent in that reviewer's call.
C39_PromptPerReview ==
    pc \in Terminal =>
        /\ Cardinality(DOMAIN result.ReviewPrompts) = Len(result.Reviews)
        /\ Len(reviewCalls) = Len(result.Reviews)
        /\ \A k \in 1..Len(result.Reviews) :
              /\ result.Reviews[k].ReviewerModel \in DOMAIN result.ReviewPrompts
              /\ result.ReviewPrompts[result.Reviews[k].ReviewerModel] = reviewCalls[k].Prompt

\* ------------------------------------------------------------------ C37
\* The threads inside the underlying client's CreateSession, and whether
\* run's deferred Close is inside Stop.
InCreateSession == {t \in Threads : call[t].pc = "creating"}

InStop == cli.pc = "closing"

\* C37: on one Client at most one goroutine at a time is inside the
\* underlying client's CreateSession or Stop; the mutex is held by exactly
\* that goroutine, so a goroutine that has left CreateSession on any path
\* (with a session or with an error) or Close no longer holds it, and the
\* other Stage-1 calls wait at the lock meanwhile.
C37_MutualExclusion ==
    /\ Cardinality(InCreateSession) + (IF InStop THEN 1 ELSE 0) <= 1
    /\ Cardinality(mu) <= 1
    /\ mu = IF InStop THEN {Main} ELSE InCreateSession

C37_Witness ==
    /\ Len(models) = 2
    /\ call[1].pc = "done"
    /\ responses[1].Error = ErrCreateSession(models[1])
    /\ call[2].pc = "creating"
    /\ mu = {2}

\* ------------------------------------------------------------------ C34
\* C34: no two invocations of the progress callback are inside the
\* Printer's spinner map (StopModelSpinner's lookup and delete) at the same
\* time.
C34_SpinnerMapExclusive == Cardinality(cli.inMap) <= 1

\* ------------------------------------------------------------------ C33
\* C33: whatever events the session delivers, more than one session.idle
\* and events after a timeout included, the completion channel of a call
\* is closed at most once and the event handler does not panic.
C33_ClosedOnce == sess.closes <= 1 /\ sess.pc # "panicked"

\* ------------------------------------------------------------------ C35
PositionOf(log, name) == CHOOSE k \in 1..Len(log) : log[k] = name

Logged(name) == \E k \in 1..Len(sess.log) : sess.log[k] = name

\* The content the handler holds after the events before the first
\* session.idle: that of the last assistant.message carrying one.
ContentBearing(events) ==
    {k \in 1..Len(events) :
        /\ events[k].type = "assistant.message"
        /\ events[k].has
        /\ \A j \in 1..k : events[j].type # "session.idle"}

LastContent(events) ==
    LET ks == ContentBearing(events)
    IN IF ks = {} THEN EmptyText
       ELSE events[CHOOSE k \in ks : \A j \in ks : j <= k].content

\* C35: the handler is registered before the prompt is sent, no event that
\* answers the send is missed, and a call that finds its session idle
\* before its deadline returns the content of the last assistant.message
\* received before the idle event.
C35_HandlerBeforeSend ==
    [][/\ (Logged("Send")' => (/\ Logged("On")'
                                /\ PositionOf(sess.log', "On") < PositionOf(sess.log', "Send")))
       /\ sess'.missed = 0
       /\ (sess.pc = "waiting" /\ sess.closes > 0 /\ ~sess.expired /\ sess'.pc # "waiting"
              => sess'.ret = [Content |-> LastContent(sess.events), Error |-> NoError])
       /\ (sess'.pc \in {"selected", "returned"} /\ sess'.ret.Error = NoError
              => sess'.ret.Content = LastContent(sess'.events))]_vars

C35_Witness ==
    /\ sess.pc = "returned"
    /\ ~sess.expired
    /\ sess.events = <<MessageEvent(TRUE, Answer(1)), MessageEvent(TRUE, Answer(2)), IdleEvent>>
    /\ sess.ret = [Content |-> Answer(2), Error |-> NoError]

\* ------------------------------------------------------------------ C36
Destroys == Cardinality({k \in 1..Len(sess.log) : sess.log[k] = "Destroy"})

\* C36: a session that was created is destroyed exactly once, as its call
\* returns, on the send-error, idle and timeout paths alike, and nothing
\* is destroyed when the creation failed.
C36_DestroyedOnce ==
    /\ Destroys <= 1
    /\ Destroys = 1 => sess.created /\ sess.pc = "returned"
    /\ sess.pc = "returned" => Destroys = (IF sess.created THEN 1 ELSE 0)
    /\ sess.ret.Error = ErrCreateSession(ModelPool[1]) => ~sess.created /\ Destroys = 0

C36_Witness ==
    /\ sess.pc = "returned"
    /\ sess.created
    /\ sess.ret.Error = ErrTimeout
    /\ sess.log = <<"CreateSession", "On", "Send", "Destroy">>

\* ------------------------------------------------------------------ C38
\* A call that is waiting for output leaves the wait.
LeftWait(t) == call[t].pc = "wait" /\ call'[t].pc # "wait"

\* C38: once the context passed to Execute is cancelled, a call that is
\* still waiting for output (its session not idle) ends with the timeout
\* failure and empty text although its own timeout has not run out, and
\* Execute reaches one of its terminal states.
C38_WaitingCallFails ==
    /\ \A i \in Workers :
          (cancelled /\ ~call[i].done /\ LeftWait(i)) =>
              /\ responses'[i].Error = ErrTimeout
              /\ responses'[i].Content = EmptyText
    /\ (cancelled /\ ~call[Main].done /\ LeftWait(Main)) =>
          Last(returned') = [Content |-> EmptyText, Error |-> ErrTimeout]

C38_CancelTerminates ==
    /\ [][C38_WaitingCallFails]_vars
    /\ [](pc \in Terminal => \A t \in Threads : call[t].pc # "wait")
    /\ cancelled ~> pc \in Terminal

C38_Witness ==
    /\ cancelled
    /\ pc = "Stage3Failed"
    /\ result.ModelResponses[1].Error = ErrTimeout
    /\ ~call[1].done
    /\ HasText(result.ModelResponses[2])
    /\ Last(returned) = [Content |-> EmptyText, Error |-> ErrTimeout]

====
